---- MODULE Spec2Model ----
(***************************************************************************)
(* Model of the directory-chunking and navigation engine of                *)
(* vitepress-plugin-llms (src/src/helpers/index.ts).                       *)
(*                                                                         *)
(* A JavaScript string is modelled as a sequence of one-character strings, *)
(* so that splitting, joining, slicing, dirname and basename are computed  *)
(* character by character as node:path and String.prototype do.  A JS      *)
(* array is a sequence; a JS Map is a sequence of [key, files] entries in  *)
(* insertion order.  node:path is modelled with its POSIX semantics.       *)
(***************************************************************************)
EXTENDS Integers, Sequences, FiniteSets, TLC

VARIABLES
    preparedFiles,      \* organizeFilesByDepth: argument preparedFiles
    depth,              \* organizeFilesByDepth: argument depth
    minFilesPerChunk,   \* organizeFilesByDepth: argument minFilesPerChunk
    directoryMap,       \* organizeFilesByDepth: local directoryMap after grouping
    chunks,             \* organizeFilesByDepth: returned DirectoryChunk[]
    navOptions,         \* generateNavigationSection: argument options
    navigation,         \* generateNavigationSection: returned string
    pc,                 \* position of the caller: "start", "organized", "navigated"
    call,               \* the last call of another helper: its arguments and result
    settings,           \* the plugin's settings object
    isSsrBuild,         \* the plugin's flag set by configResolved
    mdFiles,            \* the plugin's Set of collected markdown files, in insertion order
    disk,               \* the directories and files below the output directory
    tasks,              \* the units of work generateBundle started and still awaits
    builds,             \* per build of the site: how far its hooks have come
    log                 \* what the plugin reported

\* the variables of the chunking and navigation calls
chunkVars == <<preparedFiles, depth, minFilesPerChunk, directoryMap, chunks,
               navOptions, navigation, pc>>

\* the variables of the plugin and its build
buildVars == <<settings, isSsrBuild, mdFiles, disk, tasks, builds, log>>

vars == <<preparedFiles, depth, minFilesPerChunk, directoryMap, chunks,
          navOptions, navigation, pc, call,
          settings, isSsrBuild, mdFiles, disk, tasks, builds, log>>

----------------------------------------------------------------------------
(* Bounds of the model *)

\* largest number of documents handed to organizeFilesByDepth
MaxFiles == 5
\* largest depth setting tried (the smallest is -1)
MaxDepth == 3
\* largest minFilesPerChunk setting tried (the smallest is 1)
MaxMinFiles == 3

----------------------------------------------------------------------------
(* String and array primitives of JavaScript *)

Min(a, b) == IF a < b THEN a ELSE b

\* Array.prototype.slice(0, n) / String.prototype.slice(0, n) for n >= 0
SliceTo(s, n) == SubSeq(s, 1, Min(n, Len(s)))

\* String.prototype.slice(n) for n >= 0
SliceFrom(s, n) == SubSeq(s, n + 1, Len(s))

\* index (1-based) of the first occurrence of character c in s, 0 when absent
RECURSIVE IndexOfFrom(_, _, _)
IndexOfFrom(s, c, i) ==
    IF i > Len(s) THEN 0
    ELSE IF s[i] = c THEN i
    ELSE IndexOfFrom(s, c, i + 1)

\* String.prototype.split(c) for a one-character separator
RECURSIVE Split(_, _)
Split(s, c) ==
    LET i == IndexOfFrom(s, c, 1)
    IN  IF i = 0 THEN <<s>>
        ELSE <<SubSeq(s, 1, i - 1)>> \o Split(SubSeq(s, i + 1, Len(s)), c)

\* Array.prototype.join(sep)
RECURSIVE Join(_, _)
Join(parts, sep) ==
    IF Len(parts) = 0 THEN <<>>
    ELSE IF Len(parts) = 1 THEN parts[1]
    ELSE parts[1] \o sep \o Join(Tail(parts), sep)

\* String.prototype.replace(/\\/g, '/')
ReplaceBackslashes(s) == [i \in 1..Len(s) |-> IF s[i] = "\\" THEN "/" ELSE s[i]]

LowerCase == <<"a","b","c","d","e","f","g","h","i","j","k","l","m",
               "n","o","p","q","r","s","t","u","v","w","x","y","z">>

UpperCase == <<"A","B","C","D","E","F","G","H","I","J","K","L","M",
               "N","O","P","Q","R","S","T","U","V","W","X","Y","Z">>

\* String.prototype.toUpperCase() of one character
ToUpperCase(c) ==
    LET i == IndexOfFrom(LowerCase, c, 1)
    IN  IF i = 0 THEN c ELSE UpperCase[i]

\* mutant of Capitalize: the first character is left as it is
CapitalizeNothing(s) == s

\* s.charAt(0).toUpperCase() + s.slice(1)
Capitalize(s) ==
    IF Len(s) = 0 THEN <<>>
    ELSE <<ToUpperCase(s[1])>> \o SliceFrom(s, 1)

\* the elements of a sequence, as a set
Range(s) == {s[i] : i \in 1..Len(s)}

----------------------------------------------------------------------------
(* node:path, POSIX *)

\* the backward scan of path.dirname: the index (1-based) of the last "/"
\* that is not a trailing one and not the first character, 0 when none
RECURSIVE DirnameEnd(_, _, _)
DirnameEnd(path, i, matchedSlash) ==
    IF i < 2 THEN 0
    ELSE IF path[i] = "/"
         THEN (IF ~matchedSlash THEN i ELSE DirnameEnd(path, i - 1, TRUE))
         ELSE DirnameEnd(path, i - 1, FALSE)

\* path.dirname(path)
Dirname(path) ==
    IF Len(path) = 0 THEN <<".">>
    ELSE LET hasRoot == path[1] = "/"
             end     == DirnameEnd(path, Len(path), TRUE)
         IN  IF end = 0 THEN (IF hasRoot THEN <<"/">> ELSE <<".">>)
             ELSE IF hasRoot /\ end = 2 THEN <<"/", "/">>
             ELSE SubSeq(path, 1, end - 1)

\* the backward scan of path.basename: <<start, end>> of the last segment
\* (1-based, inclusive), trailing "/" skipped; end = 0 when there is none
RECURSIVE BasenameScan(_, _, _)
BasenameScan(path, i, end) ==
    IF i < 1 THEN <<1, end>>
    ELSE IF path[i] = "/"
         THEN (IF end # 0 THEN <<i + 1, end>> ELSE BasenameScan(path, i - 1, end))
         ELSE BasenameScan(path, i - 1, IF end = 0 THEN i ELSE end)

\* path.basename(path)
Basename(path) ==
    LET se == BasenameScan(path, Len(path), 0)
    IN  IF se[2] = 0 THEN <<>> ELSE SubSeq(path, se[1], se[2])

\* the non-empty segments of an absolute path
Segments(path) == SelectSeq(Split(path, "/"), LAMBDA p : Len(p) > 0)

\* length of the longest common prefix of two segment lists
RECURSIVE CommonLen(_, _)
CommonLen(a, b) ==
    IF Len(a) = 0 \/ Len(b) = 0 \/ a[1] # b[1] THEN 0
    ELSE 1 + CommonLen(Tail(a), Tail(b))

\* path.relative(from, to) for two absolute paths
Relative(from, to) ==
    LET f  == Segments(from)
        t  == Segments(to)
        n  == CommonLen(f, t)
        up == [i \in 1..(Len(f) - n) |-> <<".", ".">>]
    IN  Join(up \o SubSeq(t, n + 1, Len(t)), <<"/">>)

----------------------------------------------------------------------------
(* The documents of the model: text literals and the pool of input files *)

Slash == <<"/">>

Guide == <<"g","u","i","d","e">>

Api == <<"a","p","i">>

Advanced == <<"a","d","v","a","n","c","e","d">>

V2 == <<"v","2">>

\* the source root (srcDir / settings.workDir), an absolute path
srcDir == <<"/","d","o","c","s">>

\* the absolute path of the file with the given segments below srcDir
InSrcDir(segments) == srcDir \o Slash \o Join(segments, Slash)

\* the PreparedFile of the file with the given segments below srcDir (its
\* path; the title and the parsed body play no part in chunking)
PreparedFile(segments) == [path |-> InSrcDir(segments)]

FilePool ==
    << PreparedFile(<< <<"i","n","d","e","x",".","m","d">> >>),
       PreparedFile(<< Guide, <<"a",".","m","d">> >>),
       PreparedFile(<< Guide, <<"b",".","m","d">> >>),
       PreparedFile(<< Api, <<"a",".","m","d">> >>),
       PreparedFile(<< Api, <<"b",".","m","d">> >>),
       PreparedFile(<< Guide, Advanced, <<"x",".","m","d">> >>),
       PreparedFile(<< Guide, Advanced, <<"y",".","m","d">> >>),
       PreparedFile(<< Api, V2, <<"w",".","m","d">> >>),
       PreparedFile(<< <<"a","b","o","u","t",".","m","d">> >>) >>

\* the files of the pool whose index is in S, in pool order or reversed
FilesOf(S, reversed) ==
    LET idx == SelectSeq([i \in 1..Len(FilePool) |-> i], LAMBDA i : i \in S)
        n   == Len(idx)
    IN  [k \in 1..n |-> FilePool[idx[IF reversed THEN n + 1 - k ELSE k]]]

\* the base domains tried: none (undefined, falsy like '') and a sample domain
NoDomain == <<>>

SampleDomain == <<"h","t","t","p","s",":","/","/","e",".","i","o">>

----------------------------------------------------------------------------
(* organizeFilesByDepth *)

\* path.dirname(normalizedPath).split('/') of one file
DirParts(file) ==
    Split(Dirname(ReplaceBackslashes(Relative(srcDir, file.path))), "/")

\* mutant of LevelLimit: the "+ 1" that makes room for the root level is missing
LevelLimitWithoutRootLevel(d, dirParts) == Min(d, Len(dirParts))

\* the upper limit of the loop over depth levels
LevelLimit(d, dirParts) == Min(d, Len(dirParts) + 1)

\* the directory path of depth level d
DirPathAt(dirParts, d) ==
    IF d = 1 THEN <<>> ELSE Join(SliceTo(dirParts, d - 1), Slash)

\* directoryMap.has(dirPath)
MapHas(m, dirPath) == \E i \in 1..Len(m) : m[i].key = dirPath

\* mutant of MapPush: the list of the directory is reset on every push
MapPushOverwriting(m, dirPath, file) ==
    IF MapHas(m, dirPath)
    THEN [i \in 1..Len(m) |->
            IF m[i].key = dirPath THEN [key |-> dirPath, files |-> <<file>>] ELSE m[i]]
    ELSE Append(m, [key |-> dirPath, files |-> <<file>>])

\* if (!directoryMap.has(dirPath)) directoryMap.set(dirPath, []);
\* directoryMap.get(dirPath).push(file)
MapPush(m, dirPath, file) ==
    IF MapHas(m, dirPath)
    THEN [i \in 1..Len(m) |->
            IF m[i].key = dirPath
            THEN [key |-> dirPath, files |-> Append(m[i].files, file)]
            ELSE m[i]]
    ELSE Append(m, [key |-> dirPath, files |-> <<file>>])

\* the inner loop: for (let d = 1; d <= limit; d++)
RECURSIVE GroupLevels(_, _, _, _, _)
GroupLevels(m, file, dirParts, d, limit) ==
    IF d > limit THEN m
    ELSE GroupLevels(MapPush(m, DirPathAt(dirParts, d), file),
                     file, dirParts, d + 1, limit)

\* the outer loop: for (const file of preparedFiles)
RECURSIVE GroupFiles(_, _, _, _)
GroupFiles(m, files, i, d) ==
    IF i > Len(files) THEN m
    ELSE LET dirParts == DirParts(files[i])
         IN  GroupFiles(GroupLevels(m, files[i], dirParts, 1,
                                    LevelLimit(d, dirParts)),
                        files, i + 1, d)

\* directoryMap after the grouping loop
GroupByDirectory(files, d) == GroupFiles(<<>>, files, 1, d)

\* mutant of HasEnoughFiles: the root needs minFilesPerChunk files too
HasEnoughFilesRootToo(dirPath, files, minFiles) == Len(files) >= minFiles

\* mutant of HasEnoughFiles: a directory needs more than minFilesPerChunk files
HasEnoughFilesStrictly(dirPath, files, minFiles) ==
    IF dirPath = <<>> THEN Len(files) > 0 ELSE Len(files) > minFiles

\* the filter predicate of validDirectories
HasEnoughFiles(dirPath, files, minFiles) ==
    IF dirPath = <<>> THEN Len(files) > 0 ELSE Len(files) >= minFiles

ValidDirectories(m, minFiles) ==
    SelectSeq(m, LAMBDA e : HasEnoughFiles(e.key, e.files, minFiles))

\* depthLevel / pDepth
DepthLevel(dirPath) ==
    IF dirPath = <<>> THEN 1 ELSE Len(Split(dirPath, "/")) + 1

\* mutant of ParentPath: the "." that path.dirname gives for a top-level
\* directory is kept
ParentPathKeepingDot(dirPath) ==
    IF dirPath = <<>> THEN <<>> ELSE Dirname(dirPath)

\* parentPath / pParent of the sibling filter
ParentPath(dirPath) ==
    IF dirPath = <<>> THEN <<>>
    ELSE IF Dirname(dirPath) = <<".">> THEN <<>>
    ELSE Dirname(dirPath)

\* mutant of IsSibling: the depth levels are not compared
IsSiblingAtAnyDepth(p, dirPath) ==
    IF p = dirPath THEN FALSE
    ELSE ParentPath(p) = ParentPath(dirPath)

\* mutant of IsSibling: the directory itself is not excluded
IsSiblingOrSelf(p, dirPath) ==
    ParentPath(p) = ParentPath(dirPath) /\ DepthLevel(p) = DepthLevel(dirPath)

\* the predicate of the sibling filter
IsSibling(p, dirPath) ==
    IF p = dirPath THEN FALSE
    ELSE ParentPath(p) = ParentPath(dirPath) /\ DepthLevel(p) = DepthLevel(dirPath)

\* mutant of IsChild: the root is not excluded as a parent
IsChildAlsoOfRoot(p, dirPath) ==
    IF p = <<>> THEN FALSE
    ELSE (IF Dirname(p) = <<".">> THEN <<>> ELSE Dirname(p)) = dirPath

\* the predicate of the child filter
IsChild(p, dirPath) ==
    IF p = <<>> \/ dirPath = <<>> THEN FALSE
    ELSE (IF Dirname(p) = <<".">> THEN <<>> ELSE Dirname(p)) = dirPath

\* validDirectories.map(([p]) => p)
DirPaths(valid) == [i \in 1..Len(valid) |-> valid[i].key]

\* one DirectoryChunk
DirectoryChunk(valid, entry) ==
    [ dirPath      |-> entry.key,
      files        |-> entry.files,
      depth        |-> DepthLevel(entry.key),
      parentPath   |-> ParentPath(entry.key),
      siblingPaths |-> SelectSeq(DirPaths(valid), LAMBDA p : IsSibling(p, entry.key)),
      childPaths   |-> SelectSeq(DirPaths(valid), LAMBDA p : IsChild(p, entry.key)) ]

\* organizeFilesByDepth(preparedFiles, srcDir, depth, minFilesPerChunk)
OrganizeFilesByDepth(files, d, minFiles) ==
    LET valid == ValidDirectories(GroupByDirectory(files, d), minFiles)
    IN  [i \in 1..Len(valid) |-> DirectoryChunk(valid, valid[i])]

----------------------------------------------------------------------------
(* generateNavigationSection *)

LlmsTxt == <<"l","l","m","s",".","t","x","t">>

DocumentationOverview ==
    <<"D","o","c","u","m","e","n","t","a","t","i","o","n"," ",
      "O","v","e","r","v","i","e","w">>

ParentDescription ==
    <<"P","a","r","e","n","t"," ","d","o","c","u","m","e","n","t","a","t","i","o","n",
      " ","s","e","c","t","i","o","n">>

DocumentationSuffix ==
    <<" ","d","o","c","u","m","e","n","t","a","t","i","o","n">>

\* `- [${title}](${url}): ${description}`
LinkLine(title, url, description) ==
    <<"-"," ","[">> \o title \o <<"]","(">> \o url \o <<")",":"," ">> \o description

\* domain ? `${domain}/${llmsPath}` : `/${llmsPath}`
LinkUrl(domain, llmsPath) ==
    IF Len(domain) > 0 THEN domain \o Slash \o llmsPath ELSE Slash \o llmsPath

\* the condition of the parent link
HasParentLink(options) ==
    options.parentPath # options.currentDirPath /\ options.currentDirPath # <<>>

\* the parent link
ParentLink(options) ==
    LET parentLlmsPath == IF options.parentPath = <<>> THEN LlmsTxt
                          ELSE options.parentPath \o Slash \o LlmsTxt
        parentTitle    == IF options.parentPath = <<>> THEN DocumentationOverview
                          ELSE Capitalize(Basename(options.parentPath))
    IN  LinkLine(parentTitle, LinkUrl(options.domain, parentLlmsPath), ParentDescription)

\* a sibling link or a child link
DirectoryLink(domain, dirPath) ==
    LET title == Capitalize(Basename(dirPath))
    IN  LinkLine(title, LinkUrl(domain, dirPath \o Slash \o LlmsTxt),
                 title \o DocumentationSuffix)

\* mutant of NavigationLinks: the child links are pushed before the sibling links
NavigationLinksChildrenFirst(options) ==
    (IF HasParentLink(options) THEN <<ParentLink(options)>> ELSE <<>>)
    \o [i \in 1..Len(options.childPaths) |->
            DirectoryLink(options.domain, options.childPaths[i])]
    \o [i \in 1..Len(options.siblingPaths) |->
            DirectoryLink(options.domain, options.siblingPaths[i])]

\* the array links when the function returns
NavigationLinks(options) ==
    (IF HasParentLink(options) THEN <<ParentLink(options)>> ELSE <<>>)
    \o [i \in 1..Len(options.siblingPaths) |->
            DirectoryLink(options.domain, options.siblingPaths[i])]
    \o [i \in 1..Len(options.childPaths) |->
            DirectoryLink(options.domain, options.childPaths[i])]

\* generateNavigationSection(options)
GenerateNavigationSection(options) ==
    LET links == NavigationLinks(options)
    IN  IF Len(links) > 0 THEN Join(links, <<"\n">>) ELSE <<>>

\* the NavigationOptions built from a chunk (srcDir and cleanUrls are not read)
NavigationOptions(chunk, domain) ==
    [ currentDirPath |-> chunk.dirPath,
      parentPath     |-> chunk.parentPath,
      siblingPaths   |-> chunk.siblingPaths,
      childPaths     |-> chunk.childPaths,
      domain         |-> domain ]

----------------------------------------------------------------------------
(* The state machine: a caller organizes a set of documents into chunks and *)
(* renders the navigation section of one of the chunks.                    *)

\* no helper has been called
NoCall == [fn |-> "none"]

\* no plugin has been created
NoPlugin ==
    /\ settings = <<>>
    /\ isSsrBuild = FALSE
    /\ mdFiles = <<>>
    /\ disk = [dirs |-> {}, files |-> {}, denied |-> {}]
    /\ tasks = {}
    /\ builds = <<>>
    /\ log = {}

NoOptions ==
    [ currentDirPath |-> <<>>, parentPath |-> <<>>, siblingPaths |-> <<>>,
      childPaths |-> <<>>, domain |-> NoDomain ]

Init ==
    /\ \E S \in SUBSET (1..Len(FilePool)), reversed \in BOOLEAN :
          /\ Cardinality(S) <= MaxFiles
          /\ preparedFiles = FilesOf(S, reversed)
    /\ depth \in (-1)..MaxDepth
    /\ minFilesPerChunk \in 1..MaxMinFiles
    /\ directoryMap = <<>>
    /\ chunks = <<>>
    /\ navOptions = NoOptions
    /\ navigation = <<>>
    /\ pc = "start"
    /\ call = NoCall
    /\ NoPlugin

\* a call of organizeFilesByDepth
Organize ==
    /\ pc = "start"
    /\ directoryMap' = GroupByDirectory(preparedFiles, depth)
    /\ chunks' = OrganizeFilesByDepth(preparedFiles, depth, minFilesPerChunk)
    /\ pc' = "organized"
    /\ UNCHANGED <<preparedFiles, depth, minFilesPerChunk, navOptions, navigation, call, buildVars>>

\* a call of generateNavigationSection with the navigation context of a chunk
Navigate ==
    /\ pc = "organized"
    /\ \E i \in 1..Len(chunks), domain \in {NoDomain, SampleDomain} :
          /\ navOptions' = NavigationOptions(chunks[i], domain)
          /\ navigation' = GenerateNavigationSection(navOptions')
    /\ pc' = "navigated"
    /\ UNCHANGED <<preparedFiles, depth, minFilesPerChunk, directoryMap, chunks, call, buildVars>>

Next == Organize \/ Navigate

Spec == Init /\ [][Next]_vars

----------------------------------------------------------------------------
(* Vocabulary of the properties *)

\* organizeFilesByDepth has returned
Organized == pc # "start"

\* the path of a document below the source root, read off its absolute path
PathBelowRoot(file) == SubSeq(file.path, Len(srcDir) + 2, Len(file.path))

\* the segments s1 .. sk of the directory that contains a document
DirSegments(file) ==
    LET parts == Split(PathBelowRoot(file), "/")
    IN  SubSeq(parts, 1, Len(parts) - 1)

\* the prefix s1/../sn of a list of segments ("" for n = 0)
Prefix(segments, n) == Join(SubSeq(segments, 1, n), Slash)

\* the documents accumulated for a prefix in directoryMap (none when absent)
Accumulated(dirPath) ==
    IF MapHas(directoryMap, dirPath)
    THEN (CHOOSE e \in Range(directoryMap) : e.key = dirPath).files
    ELSE <<>>

\* the dirPaths of the returned chunks
ChunkPaths == {c.dirPath : c \in Range(chunks)}

\* the five documents of the worked example: guide/a.md, guide/b.md, api/a.md,
\* api/b.md and index.md
ExampleFiles == {FilePool[i] : i \in 1..5}

GuideFiles == {FilePool[2], FilePool[3]}

ApiFiles == {FilePool[4], FilePool[5]}

\* what the example states of a chunk
Summary(c) ==
    [ dirPath |-> c.dirPath, files |-> Range(c.files), count |-> Len(c.files),
      parentPath |-> c.parentPath, siblingPaths |-> c.siblingPaths ]

----------------------------------------------------------------------------
(* C1: depth = 1 yields exactly the root chunk *)

\* C1, as stated: when depth = 1, organizeFilesByDepth returns exactly one
\* chunk, with dirPath "" and depth level 1, whose files are all the input
\* documents, whatever minFilesPerChunk is.
C1_DepthOneOneChunk ==
    (Organized /\ depth = 1) =>
        /\ Len(chunks) = 1
        /\ chunks[1].dirPath = <<>>
        /\ chunks[1].depth = 1
        /\ chunks[1].files = preparedFiles

\* C1, amended: when depth = 1 and at least one document is given, the result
\* is exactly the root chunk (dirPath "", depth level 1) holding all the input
\* documents, whatever minFilesPerChunk is; with no document the result is
\* empty.
C1_DepthOneRootChunkIfAnyFile ==
    (Organized /\ depth = 1) =>
        IF Len(preparedFiles) = 0 THEN chunks = <<>>
        ELSE /\ Len(chunks) = 1
             /\ chunks[1].dirPath = <<>>
             /\ chunks[1].depth = 1
             /\ chunks[1].files = preparedFiles

\* depth = 1 with documents in subdirectories and fewer documents than
\* minFilesPerChunk: the root chunk is returned all the same
C1_Witness ==
    /\ Organized /\ depth = 1
    /\ Len(preparedFiles) > 0 /\ Len(preparedFiles) < minFilesPerChunk
    /\ \E i \in 1..Len(preparedFiles) : Len(DirSegments(preparedFiles[i])) > 0
    /\ Len(chunks) = 1

----------------------------------------------------------------------------
(* C2: chunks are cumulative *)

\* C2: every document whose directory is s1/../sk is, for every level d with
\* 1 <= d <= min(depth, k+1), in the list accumulated for the prefix
\* s1/../s(d-1), and in the chunk of that prefix whenever it is returned.
C2_CumulativeInclusion ==
    Organized =>
        \A i \in 1..Len(preparedFiles) :
            LET file == preparedFiles[i]
                segs == DirSegments(file)
            IN  \A d \in 1..Min(depth, Len(segs) + 1) :
                    /\ file \in Range(Accumulated(Prefix(segs, d - 1)))
                    /\ \A c \in Range(chunks) :
                          c.dirPath = Prefix(segs, d - 1) => file \in Range(c.files)

\* a document under guide/advanced/ is in the returned root, guide and
\* guide/advanced chunks
C2_Witness ==
    /\ Organized
    /\ \E c1, c2, c3 \in Range(chunks) :
          /\ c1.dirPath = <<>>
          /\ c2.dirPath = Guide
          /\ c3.dirPath = Guide \o Slash \o Advanced
          /\ FilePool[6] \in Range(c1.files) \cap Range(c2.files) \cap Range(c3.files)

----------------------------------------------------------------------------
(* C3: which chunks are returned *)

\* C3: the root chunk is returned iff at least one document was accumulated for
\* the root; a non-root chunk is returned iff at least minFilesPerChunk
\* documents were accumulated for its prefix.
C3_ChunkPresence ==
    Organized =>
        \A dirPath \in ChunkPaths \cup {e.key : e \in Range(directoryMap)} \cup {<<>>} :
            (dirPath \in ChunkPaths) <=>
                (IF dirPath = <<>> THEN Len(Accumulated(dirPath)) >= 1
                 ELSE Len(Accumulated(dirPath)) >= minFilesPerChunk)

\* one directory is returned with exactly minFilesPerChunk documents while
\* another, with fewer, is not
C3_Witness ==
    /\ Organized /\ minFilesPerChunk >= 2
    /\ \E c \in Range(chunks) : c.dirPath # <<>> /\ Len(c.files) = minFilesPerChunk
    /\ \E e \in Range(directoryMap) :
          e.key # <<>> /\ Len(e.files) < minFilesPerChunk /\ e.key \notin ChunkPaths

----------------------------------------------------------------------------
(* C4: filtering loses no document *)

\* C4: for depth >= 1 every input document is in the root chunk, every
\* document is in each returned chunk of a directory above it, and in the
\* example with minFilesPerChunk = 3 only the root chunk survives, holding
\* all five documents.
C4_NoDocumentLost ==
    (Organized /\ depth >= 1) =>
        /\ \A i \in 1..Len(preparedFiles) :
              LET file == preparedFiles[i]
                  segs == DirSegments(file)
              IN  /\ \E c \in Range(chunks) :
                        c.dirPath = <<>> /\ file \in Range(c.files)
                  /\ \A c \in Range(chunks) :
                        (\E n \in 0..Len(segs) : c.dirPath = Prefix(segs, n))
                            => file \in Range(c.files)
        /\ (Range(preparedFiles) = ExampleFiles /\ depth = 2 /\ minFilesPerChunk = 3) =>
              /\ Len(chunks) = 1
              /\ chunks[1].dirPath = <<>>
              /\ chunks[1].files = preparedFiles

\* the example: guide and api are discarded, the root holds all five documents
C4_Witness ==
    /\ Organized
    /\ Range(preparedFiles) = ExampleFiles /\ depth = 2 /\ minFilesPerChunk = 3
    /\ Len(Accumulated(Guide)) = 2 /\ Guide \notin ChunkPaths
    /\ Len(chunks) = 1 /\ Len(chunks[1].files) = 5

----------------------------------------------------------------------------
(* C5: the worked example *)

\* C5: guide/a.md, guide/b.md, api/a.md, api/b.md and index.md with depth = 2
\* and minFilesPerChunk = 2 give exactly three chunks: root ("", 5 files),
\* guide (2 files, parent "", siblings ["api"]) and api (2 files, parent "",
\* siblings ["guide"]).
C5_WorkedExample ==
    (Organized /\ Range(preparedFiles) = ExampleFiles /\ depth = 2 /\ minFilesPerChunk = 2) =>
        /\ Len(chunks) = 3
        /\ {Summary(c) : c \in Range(chunks)} =
              { [ dirPath |-> <<>>, files |-> ExampleFiles, count |-> 5,
                  parentPath |-> <<>>, siblingPaths |-> <<>> ],
                [ dirPath |-> Guide, files |-> GuideFiles, count |-> 2,
                  parentPath |-> <<>>, siblingPaths |-> <<Api>> ],
                [ dirPath |-> Api, files |-> ApiFiles, count |-> 2,
                  parentPath |-> <<>>, siblingPaths |-> <<Guide>> ] }

\* the example has been organized
C5_Witness ==
    /\ Organized
    /\ Range(preparedFiles) = ExampleFiles /\ depth = 2 /\ minFilesPerChunk = 2
    /\ Len(chunks) = 3

----------------------------------------------------------------------------
(* C6: siblings *)

\* C6: when C' is in C.siblingPaths, C and C' have the same parentPath and the
\* same depth, C is in C'.siblingPaths, and neither is in the other's
\* childPaths; no chunk lists itself as a sibling.
C6_Siblings ==
    Organized =>
        \A c \in Range(chunks) :
            /\ c.dirPath \notin Range(c.siblingPaths)
            /\ \A d \in Range(chunks) :
                  d.dirPath \in Range(c.siblingPaths) =>
                      /\ c.parentPath = d.parentPath
                      /\ c.depth = d.depth
                      /\ c.dirPath \in Range(d.siblingPaths)
                      /\ d.dirPath \notin Range(c.childPaths)
                      /\ c.dirPath \notin Range(d.childPaths)

\* guide and api are siblings of each other while guide has the child
\* guide/advanced
C6_Witness ==
    /\ Organized
    /\ \E c, d \in Range(chunks) :
          /\ c.dirPath = Guide /\ d.dirPath = Api
          /\ Api \in Range(c.siblingPaths) /\ Guide \in Range(d.siblingPaths)
          /\ c.childPaths = <<Guide \o Slash \o Advanced>>

----------------------------------------------------------------------------
(* C7: children *)

\* the other returned chunks whose parentPath is the dirPath of c
ChunksBelow(c) ==
    {d.dirPath : d \in {x \in Range(chunks) : x # c /\ x.parentPath = c.dirPath}}

\* C7, as stated: for every returned chunk C, the root chunk included,
\* C.childPaths is exactly the set of other returned chunks whose parentPath
\* is C.dirPath.
C7_ChildrenOfEveryChunk ==
    Organized =>
        \A c \in Range(chunks) : Range(c.childPaths) = ChunksBelow(c)

\* C7, amended: for every returned non-root chunk C, C.childPaths is exactly
\* the set of other returned chunks whose parentPath is C.dirPath; the
\* childPaths of the root chunk is always empty.
C7_ChildrenOfNonRootChunks ==
    Organized =>
        \A c \in Range(chunks) :
            IF c.dirPath = <<>> THEN c.childPaths = <<>>
            ELSE Range(c.childPaths) = ChunksBelow(c)

\* guide lists guide/advanced as its child while the root, with top-level
\* chunks below it, lists none
C7_Witness ==
    /\ Organized
    /\ \E c, r \in Range(chunks) :
          /\ c.dirPath = Guide
          /\ c.childPaths = <<Guide \o Slash \o Advanced>>
          /\ r.dirPath = <<>>
          /\ r.childPaths = <<>>
          /\ ChunksBelow(r) # {}

----------------------------------------------------------------------------
(* C8: a depth below 1 *)

\* C8: called with a depth below 1 and at least one document,
\* organizeFilesByDepth returns what it returns for depth = 1: the single root
\* chunk holding every document.
C8_DepthBelowOneIsDepthOne ==
    (Organized /\ depth < 1 /\ Len(preparedFiles) > 0) =>
        /\ chunks = OrganizeFilesByDepth(preparedFiles, 1, minFilesPerChunk)
        /\ Len(chunks) = 1
        /\ chunks[1].dirPath = <<>>
        /\ chunks[1].files = preparedFiles

----------------------------------------------------------------------------
(* C9, C10: the navigation section *)

\* generateNavigationSection has returned
Navigated == pc = "navigated"

\* the lines of the returned text
NavigationLines == IF navigation = <<>> THEN <<>> ELSE Split(navigation, "\n")

\* the title of a bullet line: the text between "- [" and the first "]"
LineTitle(line) == SubSeq(line, 4, IndexOfFrom(line, "]", 1) - 1)

\* the href of a bullet line: the text between "](" and the next ")"
LineHref(line) ==
    LET open == IndexOfFrom(line, "]", 1) + 1
    IN  SubSeq(line, open + 1, IndexOfFrom(line, ")", open) - 1)

\* whether the options call for a parent link
ExpectParent ==
    navOptions.parentPath # navOptions.currentDirPath /\ navOptions.currentDirPath # <<>>

\* the link targets in the order parent, siblings, children
ExpectedTargets ==
    (IF ExpectParent THEN <<navOptions.parentPath>> ELSE <<>>)
    \o navOptions.siblingPaths \o navOptions.childPaths

\* {domain}/{targetDir}/llms.txt or /{targetDir}/llms.txt; no directory prefix
\* for the root
ExpectedHref(target) ==
    (IF navOptions.domain = NoDomain THEN <<>> ELSE navOptions.domain)
    \o Slash \o (IF target = <<>> THEN <<>> ELSE target \o Slash) \o LlmsTxt

\* the last path segment with its first character capitalized; "Documentation
\* Overview" for the root
ExpectedTitle(target) ==
    IF target = <<>> THEN DocumentationOverview
    ELSE LET segs == Split(target, "/")
             last == segs[Len(segs)]
         IN  <<ToUpperCase(last[1])>> \o Tail(last)

\* C9: the section has (1 if parentPath # currentDirPath and currentDirPath is
\* non-root, else 0) + |siblingPaths| + |childPaths| bullet lines, linking to
\* the parent, then the siblings in the order supplied, then the children in
\* the order supplied; it is the empty string when no group yields a line.
C9_NavigationLines ==
    Navigated =>
        LET lines == NavigationLines
        IN  /\ Len(lines) =
                  (IF ExpectParent THEN 1 ELSE 0)
                  + Len(navOptions.siblingPaths) + Len(navOptions.childPaths)
            /\ \A i \in 1..Len(lines) :
                  /\ SubSeq(lines[i], 1, 3) = <<"-", " ", "[">>
                  /\ LineHref(lines[i]) = ExpectedHref(ExpectedTargets[i])
            /\ (Len(ExpectedTargets) = 0) => navigation = <<>>

\* a section with a parent link, a sibling link and a child link
C9_Witness ==
    /\ Navigated
    /\ ExpectParent
    /\ Len(navOptions.siblingPaths) >= 1
    /\ Len(navOptions.childPaths) >= 1
    /\ Len(NavigationLines) = 1 + Len(navOptions.siblingPaths) + Len(navOptions.childPaths)

\* C10: every link has as title the last path segment of its target with the
\* first character capitalized ("Documentation Overview" for a root parent)
\* and as href {domain}/{targetDir}/llms.txt, or /{targetDir}/llms.txt without
\* a domain; a root target has href {domain}/llms.txt or /llms.txt.
C10_LinkTitleAndHref ==
    Navigated =>
        LET lines == NavigationLines
        IN  \A i \in 1..Len(lines) :
                i <= Len(ExpectedTargets) =>
                    /\ LineTitle(lines[i]) = ExpectedTitle(ExpectedTargets[i])
                    /\ LineHref(lines[i]) = ExpectedHref(ExpectedTargets[i])

\* a section rendered with a domain whose parent is the root and which links a
\* nested child
C10_Witness ==
    /\ Navigated
    /\ navOptions.domain = SampleDomain
    /\ ExpectParent /\ navOptions.parentPath = <<>>
    /\ \E i \in 1..Len(navOptions.childPaths) : Len(Split(navOptions.childPaths[i], "/")) = 2
    /\ Len(NavigationLines) = Len(ExpectedTargets)

\* the same, without a domain and with a non-root parent
C10_WitnessNoDomain ==
    /\ Navigated
    /\ navOptions.domain = NoDomain
    /\ ExpectParent /\ navOptions.parentPath # <<>>
    /\ Len(NavigationLines) = Len(ExpectedTargets)

\* ---------------------------------------------------------------------------
\* Template variables: a JavaScript object, kept as the sequence of its
\* entries; an entry whose value is undefined has defined = FALSE
\* ---------------------------------------------------------------------------

Undefined == [defined |-> FALSE, value |-> <<>>]

Value(text) == [defined |-> TRUE, value |-> text]

Entry(key, v) == [key |-> key, defined |-> v.defined, value |-> v.value]

HasKey(object, key) == \E i \in 1..Len(object) : object[i].key = key

\* object[key]: undefined when the key is absent
Get(object, key) ==
    IF HasKey(object, key)
    THEN LET i == CHOOSE j \in 1..Len(object) : object[j].key = key
         IN  [defined |-> object[i].defined, value |-> object[i].value]
    ELSE Undefined

\* { ...a, ...b }: the keys of a, then the new keys of b; b's entry wins for a
\* key of both, also when its value is undefined
Spread(a, b) ==
    [i \in 1..Len(a) |-> IF HasKey(b, a[i].key) THEN Entry(a[i].key, Get(b, a[i].key)) ELSE a[i]]
        \o SelectSeq(b, LAMBDA entry : ~HasKey(a, entry.key))

\* a || b on strings: undefined and '' are falsy
Truthy(v) == v.defined /\ v.value # <<>>

Or(a, b) == IF Truthy(a) THEN a ELSE b

\* ---------------------------------------------------------------------------
\* expandTemplate (helpers/utils): {name} substitution in one pass
\* ---------------------------------------------------------------------------

\* a character of a placeholder name: a letter, a digit or "_"
IsNameChar(c) ==
    c \in Range(LowerCase) \cup Range(UpperCase)
            \cup {"0", "1", "2", "3", "4", "5", "6", "7", "8", "9", "_"}

\* the index of the "}" that closes the placeholder opening at i, 0 when no
\* placeholder opens at i
PlaceholderEnd(template, i) ==
    LET closing == { j \in (i + 2)..Len(template) :
                        /\ template[j] = "}"
                        /\ \A k \in (i + 1)..(j - 1) : IsNameChar(template[k]) }
    IN  IF template[i] = "{" /\ closing # {}
        THEN CHOOSE j \in closing : TRUE
        ELSE 0

\* the mutant replaces the first placeholder of the template only
NextPlaceholderFirstOnly(template, i) ==
    LET starts == { k \in i..Len(template) : PlaceholderEnd(template, k) > 0 }
    IN  IF starts = {} \/ i > 1 THEN 0 ELSE CHOOSE k \in starts : \A other \in starts : k <= other

\* the first index from i on at which a placeholder opens, 0 when there is none
NextPlaceholder(template, i) ==
    LET starts == { k \in i..Len(template) : PlaceholderEnd(template, k) > 0 }
    IN  IF starts = {} THEN 0 ELSE CHOOSE k \in starts : \A other \in starts : k <= other

\* the mutant keeps a placeholder whose name has no value
ReplacementKeepingUnknown(variables, name) ==
    IF Get(variables, name).defined THEN Get(variables, name).value ELSE <<"{">> \o name \o <<"}">>

\* what a placeholder is replaced by: the value, '' when absent or undefined
Replacement(variables, name) == Get(variables, name).value

RECURSIVE ExpandFrom(_, _, _)
ExpandFrom(template, variables, from) ==
    LET i == NextPlaceholder(template, from)
    IN  IF i = 0
        THEN SubSeq(template, from, Len(template))
        ELSE SubSeq(template, from, i - 1)
                \o Replacement(variables, SubSeq(template, i + 1, PlaceholderEnd(template, i) - 1))
                \o ExpandFrom(template, variables, PlaceholderEnd(template, i) + 1)

ExpandTemplate(template, variables) == ExpandFrom(template, variables, 1)

\* ---------------------------------------------------------------------------
\* Calls of expandTemplate: a template is put together from pieces, each a
\* stretch of literal text or a {name} placeholder
\* ---------------------------------------------------------------------------

MaxPieces == 4

Title == <<"t", "i", "t", "l", "e">>
Description == <<"d", "e", "s", "c", "r", "i", "p", "t", "i", "o", "n">>
Details == <<"d", "e", "t", "a", "i", "l", "s">>
NavigationKey == <<"n", "a", "v", "i", "g", "a", "t", "i", "o", "n">>
Toc == <<"t", "o", "c">>

\* a piece is literal text or, with placeholder = TRUE, the name of a {name}
PiecePool ==
    { [placeholder |-> FALSE, text |-> <<"#", " ">>],
      [placeholder |-> FALSE, text |-> <<"\n", "\n">>],
      [placeholder |-> FALSE, text |-> <<"{">>],
      [placeholder |-> TRUE, text |-> Title],
      [placeholder |-> TRUE, text |-> <<"m", "i", "s", "s", "i", "n", "g">>] }

PieceSeqs == UNION { [1..n -> PiecePool] : n \in 0..MaxPieces }

PieceText(piece) == IF piece.placeholder THEN <<"{">> \o piece.text \o <<"}">> ELSE piece.text

RECURSIVE Concat(_)
Concat(texts) == IF texts = <<>> THEN <<>> ELSE Head(texts) \o Concat(Tail(texts))

TemplateOf(pieces) == Concat([i \in 1..Len(pieces) |-> PieceText(pieces[i])])

VariableMaps ==
    { <<>>, <<Entry(Title, Undefined)>>, <<Entry(Title, Value(<<"F", "o", "o">>))>>,
      <<Entry(Title, Value(<<"{", "t", "o", "c", "}">>))>>, <<Entry(Title, Value(<<"F", "o", "o">>)), Entry(Toc, Value(<<"-", " ", "[", "A", "]", "(", "/", "a", ".", "m", "d", ")">>))>> }

\* the chunking variables while another helper is called
ChunkerIdle ==
    /\ preparedFiles = <<>>
    /\ depth = 1
    /\ minFilesPerChunk = 2
    /\ directoryMap = <<>>
    /\ chunks = <<>>
    /\ navOptions = NoOptions
    /\ navigation = <<>>
    /\ pc = "idle"

CallExpandTemplate ==
    /\ call = NoCall
    /\ \E pieces \in PieceSeqs, variables \in VariableMaps :
          call' = [ fn |-> "expandTemplate",
                    pieces |-> pieces,
                    template |-> TemplateOf(pieces),
                    variables |-> variables,
                    result |-> ExpandTemplate(TemplateOf(pieces), variables) ]
    /\ UNCHANGED <<chunkVars, buildVars>>

\* ---------------------------------------------------------------------------
\* generateTOC (helpers/toc) without a sidebar: one link per file of the chunk
\* ---------------------------------------------------------------------------

\* the link text of a file: its name without the extension
Stem(file) == LET name == Basename(file.path) IN SubSeq(name, 1, Len(name) - 3)

TOCLine(file, domain) ==
    <<"-", " ", "[">> \o Stem(file) \o <<"]", "(">> \o domain \o Slash
        \o ReplaceBackslashes(Relative(srcDir, file.path)) \o <<")">>

GenerateTOC(files, domain) == Join([i \in 1..Len(files) |-> TOCLine(files[i], domain)], <<"\n">>)

\* ---------------------------------------------------------------------------
\* generateLLMsTxt: the root llms.txt
\* ---------------------------------------------------------------------------

DefaultLLMsTxtTemplate ==
    <<"#", " ", "{", "t", "i", "t", "l", "e", "}", "\n", "\n", ">", " ", "{", "d", "e", "s", "c", "r", "i", "p", "t", "i", "o", "n", "}", "\n", "\n", "{", "d", "e", "t", "a", "i", "l", "s", "}", "\n", "\n", "#", "#", " ", "T", "a", "b", "l", "e", " ", "o", "f", " ", "C", "o", "n", "t", "e", "n", "t", "s", "\n", "\n", "{", "t", "o", "c", "}">>

\* object[key] = v: an existing key keeps its place
Set(object, key, v) ==
    IF HasKey(object, key)
    THEN [i \in 1..Len(object) |-> IF object[i].key = key THEN Entry(key, v) ELSE object[i]]
    ELSE Append(object, Entry(key, v))

\* object[key] ??= v
SetIfNullish(object, key, v) == IF Get(object, key).defined THEN object ELSE Set(object, key, v)

RECURSIVE FirstTruthy(_)
\* a || b || ... : the first truthy operand, else the last one
FirstTruthy(operands) ==
    IF Len(operands) = 1 \/ Truthy(Head(operands)) THEN Head(operands) ELSE FirstTruthy(Tail(operands))

\* templateVariables.title ??= hero.name || title || ... || 'LLMs Documentation'
WithTitle(variables, options) ==
    SetIfNullish(variables, Title,
                 FirstTruthy(<< options.indexMd.hero.name, options.indexMd.data.title,
                                options.vitepressConfig.title, options.vitepressConfig.titleTemplate,
                                options.indexMd.heading, Value(<<"L", "L", "M", "s", " ", "D", "o", "c", "u", "m", "e", "n", "t", "a", "t", "i", "o", "n">>) >>))

\* templateVariables.description ??= hero.text || ...; a description is then
\* prefixed with "> "
WithDescription(variables, options) ==
    LET resolved == SetIfNullish(variables, Description,
                        FirstTruthy(<< options.indexMd.hero.text, options.vitepressConfig.description,
                                       options.indexMd.data.description,
                                       options.indexMd.data.titleTemplate >>))
    IN  IF Truthy(Get(resolved, Description))
        THEN Set(resolved, Description, Value(<<">", " ">> \o Get(resolved, Description).value))
        ELSE resolved

\* templateVariables.details ??= hero.tagline || tagline || (!description &&
\* '...'); the last operand is false, for which nothing is rendered, when a
\* description was resolved
WithDetails(variables, options) ==
    SetIfNullish(variables, Details,
                 FirstTruthy(<< options.indexMd.hero.tagline, options.indexMd.data.tagline,
                                IF Truthy(Get(variables, Description))
                                THEN [defined |-> TRUE, value |-> <<>>]
                                ELSE Value(<<"T", "h", "i", "s", " ", "f", "i", "l", "e", " ", "c", "o", "n", "t", "a", "i", "n", "s", " ", "l", "i", "n", "k", "s", " ", "t", "o", " ", "a", "l", "l", " ", "d", "o", "c", "u", "m", "e", "n", "t", "a", "t", "i", "o", "n", " ", "s", "e", "c", "t", "i", "o", "n", "s", ".">>) >>))

\* templateVariables.toc ??= await generateTOC(...)
WithToc(variables, files, options) ==
    SetIfNullish(variables, Toc, Value(GenerateTOC(files, options.domain)))

\* the call rejects when index.md cannot be read
GenerateLLMsTxt(files, options) ==
    IF ~options.indexMd.exists
    THEN [threw |-> TRUE, templateVariables |-> options.templateVariables.value, result |-> <<>>]
    ELSE LET variables == WithToc(WithDetails(WithDescription(WithTitle(
                                options.templateVariables.value, options), options), options),
                                files, options)
             template == IF options.LLMsTxtTemplate.defined
                         THEN options.LLMsTxtTemplate.value
                         ELSE DefaultLLMsTxtTemplate
         IN  [threw |-> FALSE, templateVariables |-> variables,
              result |-> ExpandTemplate(template, variables)]

\* ---------------------------------------------------------------------------
\* generateDirectoryLLMsTxt: the llms.txt of one chunk
\* ---------------------------------------------------------------------------

DirectoryTemplate ==
    <<"#", " ", "{", "t", "i", "t", "l", "e", "}", "\n", "\n", "{", "d", "e", "s", "c", "r", "i", "p", "t", "i", "o", "n", "}", "\n", "\n", "{", "d", "e", "t", "a", "i", "l", "s", "}", "\n", "\n", "{", "n", "a", "v", "i", "g", "a", "t", "i", "o", "n", "}", "\n", "#", "#", " ", "D", "o", "c", "u", "m", "e", "n", "t", "a", "t", "i", "o", "n", "\n", "\n", "{", "t", "o", "c", "}">>

\* the mutant renders the links whatever includeNavigation says (the option
\* is true unless it is given)
NavigationSectionAlways(chunk, options) ==
    LET navLinks == GenerateNavigationSection(NavigationOptions(chunk, options.domain))
    IN  IF /\ ( \/ chunk.parentPath # chunk.dirPath
                \/ Len(chunk.siblingPaths) > 0
                \/ Len(chunk.childPaths) > 0 )
           /\ navLinks # <<>>
        THEN <<"#", "#", " ", "N", "a", "v", "i", "g", "a", "t", "i", "o", "n", "\n", "\n">> \o navLinks \o <<"\n", "\n">>
        ELSE <<>>

NavigationSection(chunk, options) ==
    LET navLinks == GenerateNavigationSection(NavigationOptions(chunk, options.domain))
    IN  IF /\ (options.includeNavigation.defined => options.includeNavigation.value)
           /\ ( \/ chunk.parentPath # chunk.dirPath
                \/ Len(chunk.siblingPaths) > 0
                \/ Len(chunk.childPaths) > 0 )
           /\ navLinks # <<>>
        THEN <<"#", "#", " ", "N", "a", "v", "i", "g", "a", "t", "i", "o", "n", "\n", "\n">> \o navLinks \o <<"\n", "\n">>
        ELSE <<>>

\* the computed defaults, then ...options.templateVariables
SectionVariables(chunk, options) ==
    LET defaults ==
            << Entry(Title, Value(Capitalize(Basename(chunk.dirPath)) \o <<" ", "D", "o", "c", "u", "m", "e", "n", "t", "a", "t", "i", "o", "n">>)),
               Entry(Description, Value(<<">", " ", "D", "o", "c", "u", "m", "e", "n", "t", "a", "t", "i", "o", "n", " ", "f", "o", "r", " ", "t", "h", "e", " ">> \o Basename(chunk.dirPath)
                                            \o <<" ", "s", "e", "c", "t", "i", "o", "n">>)),
               Entry(Details, Value(<<"D", "o", "c", "u", "m", "e", "n", "t", "a", "t", "i", "o", "n", " ", "a", "n", "d", " ", "g", "u", "i", "d", "e", "s", " ", "f", "o", "r", " ">> \o Basename(chunk.dirPath)
                                        \o <<".">>)),
               Entry(NavigationKey, Value(NavigationSection(chunk, options))),
               Entry(Toc, Value(GenerateTOC(chunk.files, options.domain))) >>
    IN  Spread(defaults, options.templateVariables.value)

GenerateDirectoryLLMsTxt(chunk, options) ==
    IF chunk.dirPath = <<>>
    THEN GenerateLLMsTxt(chunk.files,
                         [options EXCEPT !.templateVariables = Value(options.templateVariables.value)])
    ELSE LET variables == SectionVariables(chunk, options)
             template == IF Truthy(options.LLMsTxtTemplate)
                         THEN options.LLMsTxtTemplate.value
                         ELSE DirectoryTemplate
         IN  [threw |-> FALSE, templateVariables |-> variables,
              result |-> ExpandTemplate(template, variables)]

\* ---------------------------------------------------------------------------
\* Calls of generateDirectoryLLMsTxt
\* ---------------------------------------------------------------------------

\* the settings object of llmstxt() before any user setting is merged in; a
\* key the plugin does not set is undefined
DefaultSettings ==
    [ generateLLMsTxt |-> TRUE,
      generateLLMsFullTxt |-> TRUE,
      generateLLMFriendlyDocsForEachPage |-> TRUE,
      ignoreFiles |-> <<>>,
      excludeUnnecessaryFiles |-> TRUE,
      excludeIndexPage |-> TRUE,
      excludeBlog |-> TRUE,
      excludeTeam |-> TRUE,
      workDir |-> Undefined,
      depth |-> 1,
      minFilesPerChunk |-> 2,
      includeNavigation |-> Value(TRUE),
      domain |-> NoDomain,
      title |-> Undefined, description |-> Undefined, details |-> Undefined, toc |-> Undefined,
      customTemplateVariables |-> Undefined,
      customLLMsTxtTemplate |-> Undefined ]

\* { ...defaults, ...userSettings }
Llmstxt(userSettings) == userSettings @@ DefaultSettings

\* the templateVariables generateBundle hands to every chunk
BundleTemplateVariables(merged) ==
    Spread(<< Entry(Title, merged.title), Entry(Description, merged.description),
              Entry(Details, merged.details), Entry(Toc, merged.toc) >>,
           merged.customTemplateVariables.value)

CustomTemplate == <<"{", "t", "i", "t", "l", "e", "}", "|", "{", "n", "a", "v", "i", "g", "a", "t", "i", "o", "n", "}", "|", "{", "t", "o", "c", "}">>

\* a chunk handed in without any relation to other chunks
Detached(chunk) ==
    [chunk EXCEPT !.parentPath = chunk.dirPath, !.siblingPaths = <<>>, !.childPaths = <<>>]

SectionChunks ==
    LET organized == { chunk \in Range(OrganizeFilesByDepth(FilesOf(1..Len(FilePool), FALSE), 3, 2)) : chunk.dirPath # <<>> }
    IN  organized \cup { Detached(chunk) : chunk \in organized }

RootChunks == { chunk \in Range(OrganizeFilesByDepth(FilesOf({1, 2, 9}, FALSE), 1, 2)) : chunk.dirPath = <<>> }

SectionOverrides ==
    { Undefined,
      Value(<<>>),
      Value(BundleTemplateVariables(DefaultSettings)),
      Value(<<Entry(Title, Value(<<"F", "o", "o">>))>>),
      Value(<<Entry(NavigationKey, Value(<<"#", "#", " ", "N", "a", "v", "i", "g", "a", "t", "i", "o", "n", "\n", "\n", "-", " ", "[", "H", "o", "m", "e", "]", "(", "/", ")", "\n", "\n">>))>>),
      Value(<<Entry(NavigationKey, Undefined)>>) }

IndexMdFiles ==
    { [ exists |-> exists,
        hero |-> IF hero THEN [name |-> Value(<<"H", "N">>), text |-> Value(<<"H", "T">>), tagline |-> Value(<<"H", "G">>)]
                 ELSE [name |-> Undefined, text |-> Undefined, tagline |-> Undefined],
        data |-> [ title |-> IF fields THEN Value(<<"F", "T">>) ELSE Undefined,
                   description |-> IF fields THEN Value(<<"F", "D">>) ELSE Undefined,
                   tagline |-> IF fields THEN Value(<<"F", "G">>) ELSE Undefined,
                   titleTemplate |-> IF titleTemplate THEN Value(<<"F", "X">>) ELSE Undefined ],
        heading |-> IF heading THEN Value(<<"H", "1">>) ELSE Undefined ] :
      exists \in BOOLEAN, hero \in BOOLEAN, fields \in BOOLEAN, titleTemplate \in BOOLEAN,
      heading \in BOOLEAN }

SampleIndexMd == CHOOSE file \in IndexMdFiles :
    file.exists /\ Truthy(file.hero.name) /\ Truthy(file.data.title) /\ Truthy(file.heading)
        /\ Truthy(file.data.titleTemplate)

VitepressConfigs ==
    { [title |-> Undefined, titleTemplate |-> Undefined, description |-> Undefined],
      [title |-> Value(<<"S", "T">>), titleTemplate |-> Value(<<"S", "X">>), description |-> Value(<<"S", "D">>)],
      [title |-> Undefined, titleTemplate |-> Value(<<"S", "X">>), description |-> Undefined] }

RootOverrides ==
    { Undefined,
      Value(BundleTemplateVariables(DefaultSettings)),
      Value(<< Entry(Title, Value(<<"O", "T">>)), Entry(Description, Value(<<"O", "D">>)),
               Entry(Details, Value(<<"O", "G">>)) >>) }

CallGenerateDirectoryLLMsTxt ==
    /\ call = NoCall
    /\ \E chunk \in SectionChunks, templateVariables \in SectionOverrides,
          template \in {Undefined, Value(DefaultLLMsTxtTemplate), Value(CustomTemplate)},
          domain \in {NoDomain, SampleDomain},
          choice \in 1..3 :
          LET includeNavigation == <<Undefined, Value(TRUE), Value(FALSE)>>[choice]
              options == [ indexMd |-> SampleIndexMd,
                           vitepressConfig |-> CHOOSE config \in VitepressConfigs : ~Truthy(config.titleTemplate),
                           LLMsTxtTemplate |-> template,
                           templateVariables |-> templateVariables,
                           domain |-> domain,
                           includeNavigation |-> includeNavigation ]
              returned == GenerateDirectoryLLMsTxt(chunk, options)
          IN  call' = [ fn |-> "generateDirectoryLLMsTxt", chunk |-> chunk, options |-> options,
                        threw |-> returned.threw,
                        templateVariables |-> returned.templateVariables,
                        result |-> returned.result ]
    /\ UNCHANGED <<chunkVars, buildVars>>

CallGenerateRootLLMsTxt ==
    /\ call = NoCall
    /\ \E chunk \in RootChunks, templateVariables \in RootOverrides,
          template \in {Undefined, Value(CustomTemplate)},
          indexMd \in IndexMdFiles, vitepressConfig \in VitepressConfigs :
          LET options == [ indexMd |-> indexMd,
                           vitepressConfig |-> vitepressConfig,
                           LLMsTxtTemplate |-> template,
                           templateVariables |-> templateVariables,
                           domain |-> NoDomain,
                           includeNavigation |-> Undefined ]
              returned == GenerateDirectoryLLMsTxt(chunk, options)
          IN  call' = [ fn |-> "generateLLMsTxt", chunk |-> chunk, options |-> options,
                        threw |-> returned.threw,
                        templateVariables |-> returned.templateVariables,
                        result |-> returned.result ]
    /\ UNCHANGED <<chunkVars, buildVars>>

\* the caller renders the root file once more with the same options object,
\* whose templateVariables the first call has assigned to
CallGenerateRootLLMsTxtAgain ==
    /\ call.fn = "generateLLMsTxt"
    /\ ~call.threw
    /\ call.options.templateVariables.defined
    /\ "again" \notin DOMAIN call
    /\ LET options == [call.options EXCEPT !.templateVariables = Value(call.templateVariables)]
           returned == GenerateDirectoryLLMsTxt(call.chunk, options)
       IN  call' = [again |-> returned.result] @@ call
    /\ UNCHANGED <<chunkVars, buildVars>>

\* ---------------------------------------------------------------------------
\* Path normalization: path.relative(srcDir, p).replace(/\\/g, '/'), where
\* path.relative resolves both paths against the working directory first
\* ---------------------------------------------------------------------------

RECURSIVE NormalizeSegments(_, _)
\* the segments left once "." and ".." are resolved, from the root down
NormalizeSegments(done, segments) ==
    IF segments = <<>> THEN done
    ELSE IF Head(segments) = <<".">> THEN NormalizeSegments(done, Tail(segments))
    ELSE IF Head(segments) = <<".", ".">>
         THEN NormalizeSegments(SubSeq(done, 1, Len(done) - 1), Tail(segments))
         ELSE NormalizeSegments(Append(done, Head(segments)), Tail(segments))

\* path.resolve(path) in the working directory cwd
Resolve(cwd, path) ==
    Slash \o Join(NormalizeSegments(<<>>, Segments(IF Len(path) > 0 /\ path[1] = "/" THEN path
                                                  ELSE cwd \o Slash \o path)), Slash)

\* the mutant takes the path relative to the directory above the root
NormalizePathFromParent(cwd, root, path) ==
    ReplaceBackslashes(Relative(Resolve(cwd, Dirname(root)), Resolve(cwd, path)))

\* path.relative(root, path) in the working directory cwd, "\\" rewritten to "/"
NormalizePath(cwd, root, path) ==
    ReplaceBackslashes(Relative(Resolve(cwd, root), Resolve(cwd, path)))

PathPrefixes ==
    { <<>>, <<"g", "u", "i", "d", "e", "/">>, <<".", ".", "/">>, <<".", "/">>, <<"/">>, <<"/", "d", "o", "c", "s", "/">>, <<"/", "d", "o", "c", "s", "/", "g", "u", "i", "d", "e", "/">>,
      <<"/", "d", "o", "c", "s", "/", "g", "u", "i", "d", "e", "/", "a", "d", "v", "a", "n", "c", "e", "d", "/">>, <<"/", "o", "t", "h", "e", "r", "/">>, <<"/", "d", "o", "c", "s", "/", ".", "/">>, <<"/", "d", "o", "c", "s", "/", "g", "u", "i", "d", "e", "/", ".", ".", "/">>,
      <<"g", "u", "i", "d", "e", "\\">> }

PathNames == { <<"a", ".", "m", "d">>, <<"i", "n", "d", "e", "x", ".", "m", "d">>, <<"a", "\\", "b", ".", "m", "d">>, <<>> }

WorkingDirectories == { srcDir, Slash, srcDir \o Slash \o Guide }

CallNormalizePath ==
    /\ call = NoCall
    /\ \E cwd \in WorkingDirectories, prefix \in PathPrefixes, name \in PathNames :
          LET once == NormalizePath(cwd, srcDir, prefix \o name)
          IN  call' = [ fn |-> "normalizePath", cwd |-> cwd, root |-> srcDir,
                        path |-> prefix \o name,
                        once |-> once,
                        twice |-> NormalizePath(cwd, srcDir, once) ]
    /\ UNCHANGED <<chunkVars, buildVars>>

\* ---------------------------------------------------------------------------
\* generateLLMsFullTxt: every prepared file in one text
\* ---------------------------------------------------------------------------

\* generateMetadata (helpers/utils): the url of the page
UrlLine(file, domain) == <<"u", "r", "l", ":", " ">> \o domain \o Slash \o Relative(srcDir, file.path) \o <<"\n">>

\* a PreparedFile with its parsed markdown, the body being the file's name
Parsed(path, source) == [path |-> path, file |-> [content |-> Stem([path |-> source])]]

\* matter.stringify(file.file.content, metadata)
FileBlock(file, domain) ==
    <<"-", "-", "-", "\n">> \o UrlLine(file, domain) \o <<"-", "-", "-", "\n">> \o file.file.content \o <<"\n">>

\* options.directoryFilter is not read
GenerateLLMsFullTxt(files, options) ==
    Join([i \in 1..Len(files) |-> FileBlock(files[i], options.domain)], <<"\n", "-", "-", "-", "\n", "\n">>)

MaxFullFiles == 3

CallGenerateLLMsFullTxt ==
    /\ call = NoCall
    /\ \E S \in SUBSET (1..Len(FilePool)), domain \in {NoDomain, SampleDomain},
          directoryFilter \in {Undefined, Value(<<".">>), Value(Guide), Value(Api)} :
          /\ Cardinality(S) <= MaxFullFiles
          /\ LET options == [domain |-> domain, directoryFilter |-> directoryFilter]
                 files == [i \in 1..Cardinality(S) |->
                              Parsed(FilesOf(S, FALSE)[i].path, FilesOf(S, FALSE)[i].path)]
             IN  call' = [ fn |-> "generateLLMsFullTxt", files |-> files,
                           options |-> options,
                           result |-> GenerateLLMsFullTxt(files, options) ]
    /\ UNCHANGED <<chunkVars, buildVars>>

\* ---------------------------------------------------------------------------
\* The plugin: configResolved, buildStart, transform and generateBundle
\* ---------------------------------------------------------------------------

MaxIgnoreFiles == 10

outDir == <<"/", "d", "i", "s", "t">>

\* the ignore patterns of src/constants the plugin adds on configResolved
UnnecessaryFilesList ==
    [ indexPage |-> << <<"i", "n", "d", "e", "x", ".", "m", "d">> >>,
      blogs |-> << <<"b", "l", "o", "g", ".", "m", "d">>, <<"b", "l", "o", "g", "/", "*">> >>,
      team |-> << <<"t", "e", "a", "m", ".", "m", "d">>, <<"t", "e", "a", "m", "/", "*">> >> ]

\* the files Vite may hand to transform, with the title extractTitle finds
Documents ==
    { [id |-> InSrcDir(<< <<"a", "b", "o", "u", "t", ".", "m", "d">> >>), title |-> Value(<<"A", "b", "o", "u", "t">>)],
      [id |-> InSrcDir(<< <<"g", "u", "i", "d", "e", ".", "m", "d">> >>), title |-> Value(<<"G", "u", "i", "d", "e">>)],
      [id |-> InSrcDir(<< Guide, <<"a", ".", "m", "d">> >>), title |-> Undefined],
      [id |-> InSrcDir(<< Guide, <<"i", "n", "d", "e", "x", ".", "m", "d">> >>), title |-> Undefined],
      [id |-> InSrcDir(<< Guide, Advanced, <<"x", ".", "m", "d">> >>), title |-> Undefined],
      [id |-> InSrcDir(<< <<"i", "n", "d", "e", "x", ".", "m", "d">> >>), title |-> Value(<<"H", "o", "m", "e">>)],
      [id |-> InSrcDir(<< <<"x", ".", "t", "s">> >>), title |-> Undefined],
      [id |-> <<"/", "o", "t", "h", "e", "r", "/", "a", ".", "m", "d">>, title |-> Undefined] }

\* at most this many files are collected in the model
MaxCollected == 2

\* what the user passes to llmstxt()
UserSettings ==
    { [depth |-> 1],
      [depth |-> 3, minFilesPerChunk |-> 1],
      [depth |-> 3, minFilesPerChunk |-> 1, includeNavigation |-> Value(FALSE)],
      [depth |-> 3, minFilesPerChunk |-> 1, customLLMsTxtTemplate |-> Value(CustomTemplate)],
      [generateLLMsTxt |-> FALSE, generateLLMsFullTxt |-> FALSE, ignoreFiles |-> << <<"a", "b", "o", "u", "t", ".", "m", "d">> >>] }

StartsWith(text, prefix) == Len(prefix) <= Len(text) /\ SubSeq(text, 1, Len(prefix)) = prefix

EndsWith(text, suffix) ==
    Len(suffix) <= Len(text) /\ SubSeq(text, Len(text) - Len(suffix) + 1, Len(text)) = suffix

\* minimatch(path, pattern) for a literal pattern and for "dir/*"
Minimatch(path, pattern) ==
    IF EndsWith(pattern, <<"/", "*">>)
    THEN /\ StartsWith(path, SubSeq(pattern, 1, Len(pattern) - 1))
         /\ Len(path) > Len(pattern) - 1
         /\ IndexOfFrom(path, "/", Len(pattern)) = 0
    ELSE path = pattern

\* the patterns configResolved pushes to settings.ignoreFiles
PushedPatterns ==
    IF settings.excludeUnnecessaryFiles
    THEN (IF settings.excludeIndexPage THEN UnnecessaryFilesList.indexPage ELSE <<>>)
            \o (IF settings.excludeBlog THEN UnnecessaryFilesList.blogs ELSE <<>>)
            \o (IF settings.excludeTeam THEN UnnecessaryFilesList.team ELSE <<>>)
    ELSE <<>>

\* a line of the plugin's log
LogEntry(level, text, path) == [level |-> level, text |-> text, path |-> path]

\* a build of the site whose hooks have not been called yet
NewBuild == [at |-> "created", collected |-> {}, processed |-> <<>>]

\* configResolved with the configuration of a build; its build.ssr is set in
\* the SSR build
ConfigResolved(build) ==
    /\ builds[build].at = "created"
    /\ Len(settings.ignoreFiles) + Len(PushedPatterns) <= MaxIgnoreFiles
    /\ settings' = [settings EXCEPT
                      !.workDir = Value(IF Truthy(settings.workDir)
                                        THEN Resolve(srcDir, settings.workDir.value)
                                        ELSE srcDir),
                      !.ignoreFiles = settings.ignoreFiles \o PushedPatterns]
    /\ isSsrBuild' = (build = "ssr")
    /\ log' = log \cup {LogEntry("info", IF build = "ssr" THEN "initialized (SSR build)"
                                         ELSE "initialized (client build)", <<>>)}
    /\ builds' = [builds EXCEPT ![build].at = "configured"]
    /\ UNCHANGED <<chunkVars, call, mdFiles, disk, tasks>>

BuildStart(build) ==
    /\ builds[build].at = "configured"
    /\ mdFiles' = <<>>
    /\ log' = log \cup {LogEntry("info", "Build started, file collection cleared", <<>>)}
    /\ builds' = [builds EXCEPT ![build].at = "started", ![build].collected = {}]
    /\ UNCHANGED <<chunkVars, call, settings, isSsrBuild, disk, tasks>>

\* transform goes on to collect the file
Collects(id) ==
    /\ EndsWith(id, <<".", "m", "d">>)
    /\ settings.workDir.defined
    /\ StartsWith(id, settings.workDir.value)
    /\ ~\E i \in 1..Len(settings.ignoreFiles) :
            Minimatch(Relative(settings.workDir.value, id), settings.ignoreFiles[i])

\* mdFiles.add(id)
SetAdd(set, id) == IF id \in Range(set) THEN set ELSE Append(set, id)

Transform(build) ==
    /\ builds[build].at = "started"
    /\ \E document \in Documents :
          IF Collects(document.id)
          THEN /\ Len(SetAdd(mdFiles, document.id)) <= MaxCollected
               /\ mdFiles' = SetAdd(mdFiles, document.id)
               /\ builds' = [builds EXCEPT ![build].collected = @ \cup {document.id}]
          ELSE UNCHANGED <<mdFiles, builds>>
    /\ UNCHANGED <<chunkVars, call, settings, isSsrBuild, disk, tasks, log>>

\* extractTitle(processedMarkdown)?.trim() || 'Untitled'
TitleOf(id) ==
    Or((CHOOSE document \in Documents : document.id = id).title, Value(<<"U", "n", "t", "i", "t", "l", "e", "d">>)).value

\* <dir>/index.md below the root is given the path <dir>.md
FilePath(id) ==
    IF Basename(id) = <<"i", "n", "d", "e", "x", ".", "m", "d">> /\ Dirname(id) # settings.workDir.value
    THEN Dirname(id) \o <<".", "m", "d">>
    ELSE id

\* the place of a character in the alphabet, whatever its case
LetterRank(c) ==
    IF IndexOfFrom(LowerCase, c, 1) > 0 THEN IndexOfFrom(LowerCase, c, 1)
    ELSE IndexOfFrom(UpperCase, c, 1)

RECURSIVE LocaleCompare(_, _)
\* a.localeCompare(b) for titles made of letters: negative, zero or positive
LocaleCompare(a, b) ==
    IF a = <<>> /\ b = <<>> THEN 0
    ELSE IF a = <<>> THEN -1
    ELSE IF b = <<>> THEN 1
    ELSE IF LetterRank(Head(a)) # LetterRank(Head(b)) THEN LetterRank(Head(a)) - LetterRank(Head(b))
    ELSE LocaleCompare(Tail(a), Tail(b))

RECURSIVE SortByTitle(_)
\* preparedFiles.sort((a, b) => a.title.localeCompare(b.title)), a stable sort
SortByTitle(files) ==
    IF files = <<>> THEN <<>>
    ELSE LET sorted == SortByTitle(SubSeq(files, 1, Len(files) - 1))
             last == files[Len(files)]
             before == SelectSeq(sorted, LAMBDA file : LocaleCompare(file.title, last.title) <= 0)
             after == SelectSeq(sorted, LAMBDA file : LocaleCompare(file.title, last.title) > 0)
         IN  before \o <<last>> \o after

\* the prepared files of generateBundle, sorted
PreparedFilesOf(mdFilesList) ==
    SortByTitle([i \in 1..Len(mdFilesList) |->
                    [ path |-> FilePath(mdFilesList[i]), title |-> TitleOf(mdFilesList[i]),
                      file |-> Parsed(FilePath(mdFilesList[i]), mdFilesList[i]).file ]])

\* path.resolve(outDir, ...segments)
ResolveOut(segments) == Resolve(Slash, Join(<<outDir>> \o segments, Slash))

\* the directory and every directory above it
WithParents(dir) ==
    { Slash \o Join(SubSeq(Segments(dir), 1, n), Slash) : n \in 1..Len(Segments(dir)) }

\* a || fallback for a number
OrNumber(n, fallback) == IF n = 0 THEN fallback ELSE n

ChunkOptions ==
    [ indexMd |-> [SampleIndexMd EXCEPT !.exists = InSrcDir(<< <<"i", "n", "d", "e", "x", ".", "m", "d">> >>) \notin disk.denied],
      vitepressConfig |-> CHOOSE config \in VitepressConfigs : ~Truthy(config.titleTemplate),
      LLMsTxtTemplate |-> Or(settings.customLLMsTxtTemplate, Value(DefaultLLMsTxtTemplate)),
      templateVariables |-> Value(BundleTemplateVariables(settings)),
      domain |-> settings.domain,
      includeNavigation |-> settings.includeNavigation ]

\* the unit of work of one chunk: mkdir (below the root), render, writeFile
ChunkTask(build, chunk) ==
    LET llmsTxtPath == IF chunk.dirPath = <<>> THEN ResolveOut(<<LlmsTxt>>)
                       ELSE ResolveOut(<<chunk.dirPath, LlmsTxt>>)
        llmsTxt == GenerateDirectoryLLMsTxt(chunk, ChunkOptions)
    IN  [ build |-> build,
          unit |-> <<"chunk", chunk.dirPath>>,
          path |-> llmsTxtPath,
          dirs |-> IF chunk.dirPath = <<>> THEN {} ELSE WithParents(Dirname(llmsTxtPath)),
          threw |-> llmsTxt.threw,
          content |-> llmsTxt.result ]

FullTask(build, files) ==
    [ build |-> build,
      unit |-> <<"full", <<>>>>,
      path |-> ResolveOut(<< <<"l", "l", "m", "s", "-", "f", "u", "l", "l", ".", "t", "x", "t">> >>),
      dirs |-> {},
      threw |-> FALSE,
      content |-> GenerateLLMsFullTxt(files, [domain |-> settings.domain, directoryFilter |-> Undefined]) ]

PageTask(build, file) ==
    LET targetPath == ResolveOut(<<Relative(settings.workDir.value, file.path)>>)
    IN  [ build |-> build,
          unit |-> <<"page", Relative(settings.workDir.value, file.path)>>,
          path |-> targetPath,
          dirs |-> WithParents(Dirname(targetPath)),
          threw |-> FALSE,
          content |-> FileBlock(file, settings.domain) ]

\* the units of work generateBundle starts
BundleTasks(build, files) ==
    (IF settings.generateLLMsTxt
     THEN { ChunkTask(build, chunk) :
                chunk \in Range(OrganizeFilesByDepth(files, OrNumber(settings.depth, 1),
                                                     OrNumber(settings.minFilesPerChunk, 2))) }
     ELSE {})
    \cup (IF settings.generateLLMsFullTxt THEN {FullTask(build, files)} ELSE {})
    \cup (IF settings.generateLLMFriendlyDocsForEachPage
          THEN { PageTask(build, files[i]) : i \in 1..Len(files) }
          ELSE {})

\* the mutant generates in the SSR build too
SkipsGenerationNever == FALSE

\* generateBundle returns at once in the SSR build
SkipsGeneration == isSsrBuild

\* the mutant goes on without any file
NoFilesFoundNever == FALSE

\* fileCount === 0
NoFilesFound == Len(mdFiles) = 0

\* fs.readFile of a collected file fails
Unreadable == \E i \in 1..Len(mdFiles) : mdFiles[i] \in disk.denied

\* generateBundle up to the point where it awaits its units of work; it
\* rejects there and then when a collected file cannot be read
GenerateBundle(build) ==
    /\ builds[build].at = "started"
    /\ IF SkipsGeneration
       THEN /\ log' = log \cup {LogEntry("info", "Skipping LLMs docs generation in SSR build", <<>>)}
            /\ builds' = [builds EXCEPT ![build].at = "skipped"]
            /\ UNCHANGED <<disk, tasks>>
       ELSE /\ disk' = [disk EXCEPT !.dirs = disk.dirs \cup {outDir}]
            /\ IF NoFilesFound
               THEN /\ log' = log \cup {LogEntry("warn", "No markdown files found to process.", <<>>)}
                    /\ builds' = [builds EXCEPT ![build].at = "done"]
                    /\ UNCHANGED tasks
               ELSE /\ log' = log \cup {LogEntry("info", "Processing markdown files", <<>>)}
                    /\ IF Unreadable
                       THEN /\ builds' = [builds EXCEPT ![build].at = "rejected",
                                                         ![build].processed = mdFiles]
                            /\ UNCHANGED tasks
                       ELSE /\ tasks' = tasks \cup BundleTasks(build, PreparedFilesOf(mdFiles))
                            /\ builds' = [builds EXCEPT ![build].at = "bundling",
                                                         ![build].processed = mdFiles]
    /\ UNCHANGED <<chunkVars, call, settings, isSsrBuild, mdFiles>>

\* fs.writeFile(path, content)
WriteFile(files, path, content) ==
    { file \in files : file.path # path } \cup {[path |-> path, content |-> content]}

\* the unit of work throws: its render does, or its fs.writeFile
Fails(task) == task.threw \/ task.path \in disk.denied

\* the unit of work catches what it throws: try/catch of the page tasks only
Caught(task) == task.unit[1] = "page"

\* one unit of work runs to its end; the units finish in any order. A page
\* that fails is logged; any other unit that fails rejects, and with it
\* Promise.all and generateBundle, while the other units are still running
RunTask ==
    \E task \in tasks :
        /\ disk' = [disk EXCEPT
                      !.dirs = disk.dirs \cup task.dirs,
                      !.files = IF Fails(task) THEN disk.files
                                ELSE WriteFile(disk.files, task.path, task.content)]
        /\ tasks' = tasks \ {task}
        /\ log' = IF Fails(task) /\ Caught(task)
                  THEN log \cup {LogEntry("error", "Failed to process", task.unit[2])}
                  ELSE log
        /\ builds' = IF Fails(task) /\ ~Caught(task) /\ builds[task.build].at = "bundling"
                     THEN [builds EXCEPT ![task.build].at = "rejected"]
                     ELSE builds
        /\ UNCHANGED <<chunkVars, call, settings, isSsrBuild, mdFiles>>

\* the units of work of the build that have not finished
Pending(build) == { task \in tasks : task.build = build }

\* await Promise.all(tasks) is over
FinishBundle(build) ==
    /\ builds[build].at = "bundling"
    /\ Pending(build) = {}
    /\ builds' = [builds EXCEPT ![build].at = "done"]
    /\ UNCHANGED <<chunkVars, call, settings, isSsrBuild, mdFiles, disk, tasks, log>>

\* a plugin created by llmstxt(userSettings), no hook called yet
Created(userSettings) ==
    /\ ChunkerIdle
    /\ call = NoCall
    /\ settings = Llmstxt(userSettings)
    /\ isSsrBuild = FALSE
    /\ mdFiles = <<>>
    /\ tasks = {}
    /\ log = {}

\* one build, of the client or of the server bundle
InitBuild ==
    /\ \E userSettings \in UserSettings : Created(userSettings)
    /\ disk \in { [dirs |-> {}, files |-> {}, denied |-> {}],
                  [dirs |-> {outDir}, files |-> {}, denied |-> {}] }
    /\ \E build \in {"client", "ssr"} : builds = [b \in {build} |-> NewBuild]

NextBuild ==
    \/ \E build \in DOMAIN builds : ConfigResolved(build)
    \/ \E build \in DOMAIN builds : BuildStart(build)
    \/ \E build \in DOMAIN builds : Transform(build)
    \/ \E build \in DOMAIN builds : GenerateBundle(build)
    \/ RunTask
    \/ \E build \in DOMAIN builds : FinishBundle(build)

SpecBuild == InitBuild /\ [][NextBuild]_vars

\* one site build: VitePress runs the client build and the SSR build side by
\* side, and both call the hooks of the same plugin object
InitSite ==
    /\ Created([ generateLLMsTxt |-> FALSE, generateLLMFriendlyDocsForEachPage |-> FALSE,
                  excludeBlog |-> FALSE, excludeTeam |-> FALSE,
                  ignoreFiles |-> << <<"g", "u", "i", "d", "e", "/", "*">>, <<"g", "u", "i", "d", "e", "/", "a", "d", "v", "a", "n", "c", "e", "d", "/", "*">> >> ])
    /\ disk = [dirs |-> {}, files |-> {}, denied |-> {}]
    /\ builds = [build \in {"client", "ssr"} |-> NewBuild]

SpecSite == InitSite /\ [][NextBuild]_vars

\* the paths on which fs.readFile or fs.writeFile fails in a build
DeniedPaths ==
    { {},
      {InSrcDir(<< Guide, <<"a", ".", "m", "d">> >>)},
      {InSrcDir(<< <<"i", "n", "d", "e", "x", ".", "m", "d">> >>)},
      {ResolveOut(<< Guide, <<"a", ".", "m", "d">> >>)},
      {ResolveOut(<< Guide, LlmsTxt >>)} }

\* a client build on a file system where one path cannot be read or written
InitFaults ==
    /\ Created([depth |-> 2, minFilesPerChunk |-> 1])
    /\ \E denied \in DeniedPaths : disk = [dirs |-> {outDir}, files |-> {}, denied |-> denied]
    /\ builds = [build \in {"client"} |-> NewBuild]

SpecFaults == InitFaults /\ [][NextBuild]_vars

\* ---------------------------------------------------------------------------
\* The helpers called on their own
\* ---------------------------------------------------------------------------

InitHelper == ChunkerIdle /\ call = NoCall /\ NoPlugin

\* expandTemplate
SpecTemplate == InitHelper /\ [][CallExpandTemplate]_vars

NextRender ==
    \/ CallGenerateDirectoryLLMsTxt
    \/ CallGenerateRootLLMsTxt
    \/ CallGenerateRootLLMsTxtAgain

\* generateDirectoryLLMsTxt and, for the root chunk, generateLLMsTxt
SpecRender == InitHelper /\ [][NextRender]_vars

\* the path normalization
SpecPaths == InitHelper /\ [][CallNormalizePath]_vars

\* generateLLMsFullTxt
SpecFull == InitHelper /\ [][CallGenerateLLMsFullTxt]_vars

\* ---------------------------------------------------------------------------
\* Claims about the helpers
\* ---------------------------------------------------------------------------

Expanded == call.fn = "expandTemplate"

\* the text a piece stands for once expanded: a placeholder gives its value,
\* nothing when it has none
PieceExpansion(piece, variables) ==
    IF ~piece.placeholder THEN piece.text
    ELSE IF \E i \in 1..Len(variables) : variables[i].key = piece.text /\ variables[i].defined
         THEN (CHOOSE entry \in Range(variables) : entry.key = piece.text).value
         ELSE <<>>

LiteralText(pieces) == Concat([i \in 1..Len(pieces) |-> IF pieces[i].placeholder THEN <<>> ELSE pieces[i].text])

HasPlaceholder(text) == \E i \in 1..Len(text) : PlaceholderEnd(text, i) > 0

NamesUsed(pieces) == { pieces[i].text : i \in { j \in 1..Len(pieces) : pieces[j].placeholder } }

HasBrace(text) == \E i \in 1..Len(text) : text[i] \in {"{", "}"}

\* C15: expandTemplate replaces every {name} whose name is absent from the
\* variable map, or mapped to undefined, by the empty string and leaves every
\* other character of the template unchanged (a "{" outside a placeholder
\* passes through); with an empty map only the placeholders change.
C15_UnknownPlaceholdersBlanked ==
    Expanded =>
        /\ call.result = Concat([i \in 1..Len(call.pieces) |-> PieceExpansion(call.pieces[i], call.variables)])
        /\ call.variables = <<>> => call.result = LiteralText(call.pieces)

\* the example "# {title}\n\n{missing}" with { title: "Foo" } gives "# Foo\n\n"
C15_Witness ==
    /\ Expanded
    /\ call.template = <<"#", " ", "{", "t", "i", "t", "l", "e", "}", "\n", "\n", "{", "m", "i", "s", "s", "i", "n", "g", "}">>
    /\ call.variables = <<Entry(Title, Value(<<"F", "o", "o">>))>>
    /\ call.result = <<"#", " ", "F", "o", "o", "\n", "\n">>

\* a "{" outside a placeholder and an undefined value in one template
C15_WitnessBrace ==
    /\ Expanded
    /\ call.template = <<"{", "{", "t", "i", "t", "l", "e", "}">>
    /\ call.variables = <<Entry(Title, Undefined)>>
    /\ call.result = <<"{">>

\* C16 as stated: when the map has a string for every placeholder name of the
\* template, no {name} is left in the result.
C16_NoPlaceholderLeft ==
    (Expanded /\ \A name \in NamesUsed(call.pieces) : Get(call.variables, name).defined)
        => ~HasPlaceholder(call.result)

\* C16: when the map has a string for every placeholder name of the template
\* and neither these strings nor the template's text outside its placeholders
\* contain a brace, no {name} is left in the result.
C16_NoPlaceholderLeftWithoutBraces ==
    ( /\ Expanded
      /\ \A name \in NamesUsed(call.pieces) : Get(call.variables, name).defined
      /\ \A i \in 1..Len(call.variables) : ~HasBrace(call.variables[i].value)
      /\ ~HasBrace(LiteralText(call.pieces)) )
        => ~HasPlaceholder(call.result)

\* a template with two placeholders and text between them, given a brace-free
\* string
C16_Witness ==
    /\ Expanded
    /\ call.template = <<"{", "t", "i", "t", "l", "e", "}", "\n", "\n", "{", "t", "i", "t", "l", "e", "}">>
    /\ Get(call.variables, Title) = Value(<<"F", "o", "o">>)
    /\ call.result = <<"F", "o", "o", "\n", "\n", "F", "o", "o">>
    /\ ~HasPlaceholder(call.result)

\* the index at which sub first occurs in text, 0 when it does not occur
IndexOf(text, sub) ==
    LET at == { i \in 1..(Len(text) - Len(sub) + 1) : SubSeq(text, i, i + Len(sub) - 1) = sub }
    IN  IF at = {} THEN 0 ELSE CHOOSE i \in at : \A other \in at : i <= other

Contains(text, sub) == IndexOf(text, sub) > 0

NavigationHeading == <<"#", "#", " ", "N", "a", "v", "i", "g", "a", "t", "i", "o", "n">>

DocumentationHeading == <<"#", "#", " ", "D", "o", "c", "u", "m", "e", "n", "t", "a", "t", "i", "o", "n">>

\* a non-root chunk was rendered
SectionRendered == call.fn = "generateDirectoryLLMsTxt"

\* a non-root chunk was rendered with the template of generateDirectoryLLMsTxt
SectionRenderedByDefault == SectionRendered /\ call.options.LLMsTxtTemplate = Undefined

\* the navigation block computed for the rendered chunk
ComputedBlock == GenerateNavigationSection(NavigationOptions(call.chunk, call.options.domain))

NavigationEnabled ==
    ~(call.options.includeNavigation.defined /\ ~call.options.includeNavigation.value)

NavigationShown ==
    /\ Contains(call.result, NavigationHeading)
    /\ IndexOf(call.result, NavigationHeading) < IndexOf(call.result, DocumentationHeading)

\* C11 as stated: without a custom template the output of a non-root chunk has
\* a "## Navigation" section before "## Documentation" if and only if
\* includeNavigation is true and the chunk's navigation block is not empty;
\* with includeNavigation = false it never contains "## Navigation".
C11_NavigationIffEnabledAndNonEmpty ==
    SectionRenderedByDefault =>
        /\ NavigationShown <=> (NavigationEnabled /\ ComputedBlock # <<>>)
        /\ ~NavigationEnabled => ~Contains(call.result, NavigationHeading)

\* C11: the same, for calls whose templateVariables have no navigation entry
\* (such an entry replaces the computed section, whatever the flag says).
C11_NavigationIffEnabledAndNonEmptyUnlessOverridden ==
    (SectionRenderedByDefault /\ ~HasKey(call.options.templateVariables.value, NavigationKey)) =>
        /\ NavigationShown <=> (NavigationEnabled /\ ComputedBlock # <<>>)
        /\ ~NavigationEnabled => ~Contains(call.result, NavigationHeading)

\* the guide chunk rendered with its navigation section
C11_Witness ==
    /\ SectionRenderedByDefault
    /\ call.chunk.dirPath = Guide
    /\ call.options.templateVariables = Value(<<>>)
    /\ call.options.includeNavigation.defined /\ call.options.includeNavigation.value
    /\ ComputedBlock # <<>>
    /\ NavigationShown

\* a chunk with links to offer rendered with includeNavigation = false, and a
\* chunk without any relation rendered with includeNavigation = true
C11_WitnessDisabled ==
    /\ SectionRenderedByDefault
    /\ ~HasKey(call.options.templateVariables.value, NavigationKey)
    /\ \/ ~NavigationEnabled /\ ComputedBlock # <<>>
       \/ NavigationEnabled /\ ComputedBlock = <<>>
    /\ ~Contains(call.result, NavigationHeading)
    /\ Contains(call.result, DocumentationHeading)

SectionKeys == {Title, Description, Details, NavigationKey, Toc}

\* the default generateDirectoryLLMsTxt computes for a variable
SectionDefault(key) ==
    CASE key = Title -> Value(Capitalize(Basename(call.chunk.dirPath)) \o <<" ", "D", "o", "c", "u", "m", "e", "n", "t", "a", "t", "i", "o", "n">>)
      [] key = Description -> Value(<<">", " ", "D", "o", "c", "u", "m", "e", "n", "t", "a", "t", "i", "o", "n", " ", "f", "o", "r", " ", "t", "h", "e", " ">> \o Basename(call.chunk.dirPath) \o <<" ", "s", "e", "c", "t", "i", "o", "n">>)
      [] key = Details -> Value(<<"D", "o", "c", "u", "m", "e", "n", "t", "a", "t", "i", "o", "n", " ", "a", "n", "d", " ", "g", "u", "i", "d", "e", "s", " ", "f", "o", "r", " ">> \o Basename(call.chunk.dirPath) \o <<".">>)
      [] key = NavigationKey -> Value(NavigationSection(call.chunk, call.options))
      [] key = Toc -> Value(GenerateTOC(call.chunk.files, call.options.domain))

\* C13 as stated: for a non-root chunk every template variable (title,
\* description, details, navigation, toc) has its computed default unless an
\* override value is supplied for its name, and then has the override; so the
\* variables generateBundle passes when nothing is configured leave the
\* defaults in place.
C13_DefaultUnlessOverrideValue ==
    SectionRendered =>
        \A key \in SectionKeys :
            Get(call.templateVariables, key) =
                IF Get(call.options.templateVariables.value, key).defined
                THEN Get(call.options.templateVariables.value, key)
                ELSE SectionDefault(key)

\* a root chunk was rendered and index.md could be read
RootRendered == call.fn = "generateLLMsTxt" /\ ~call.threw

\* the override given for a variable of the root chunk, undefined if none
RootOverride(key) == Get(call.options.templateVariables.value, key)

\* the description by the stated order: hero, front matter, site config
StatedDescription ==
    LET indexMdFile == call.options.indexMd
        resolved == FirstTruthy(<< indexMdFile.hero.text, indexMdFile.data.description,
                                   indexMdFile.data.titleTemplate,
                                   call.options.vitepressConfig.description >>)
        description == IF RootOverride(Description).defined THEN RootOverride(Description) ELSE resolved
    IN  IF Truthy(description) THEN Value(<<">", " ">> \o description.value) ELSE description

\* the title by the stated order: hero, front matter, site config, heading,
\* literal
StatedTitle ==
    LET indexMdFile == call.options.indexMd
        resolved == FirstTruthy(<< indexMdFile.hero.name, indexMdFile.data.title,
                                   call.options.vitepressConfig.title,
                                   call.options.vitepressConfig.titleTemplate,
                                   indexMdFile.heading, Value(<<"L", "L", "M", "s", " ", "D", "o", "c", "u", "m", "e", "n", "t", "a", "t", "i", "o", "n">>) >>)
    IN  IF RootOverride(Title).defined THEN RootOverride(Title) ELSE resolved

\* the details by the stated order: hero, front matter, literal (only when
\* there is no description)
StatedDetails ==
    LET indexMdFile == call.options.indexMd
        resolved == FirstTruthy(<< indexMdFile.hero.tagline, indexMdFile.data.tagline,
                                   IF Truthy(StatedDescription)
                                   THEN [defined |-> TRUE, value |-> <<>>]
                                   ELSE Value(<<"T", "h", "i", "s", " ", "f", "i", "l", "e", " ", "c", "o", "n", "t", "a", "i", "n", "s", " ", "l", "i", "n", "k", "s", " ", "t", "o", " ", "a", "l", "l", " ", "d", "o", "c", "u", "m", "e", "n", "t", "a", "t", "i", "o", "n", " ", "s", "e", "c", "t", "i", "o", "n", "s", ".">>) >>)
    IN  IF RootOverride(Details).defined THEN RootOverride(Details) ELSE resolved

\* C14 as stated: for the root chunk title, description and details are each
\* the explicit override, else the index.md hero field, else the plain
\* front-matter field, else the site-level config, else (title) the first
\* heading, else the literal; a lower source is never used when a higher one
\* is present.
C14_RootPrecedence ==
    RootRendered =>
        /\ Get(call.templateVariables, Title) = StatedTitle
        /\ Get(call.templateVariables, Description) = StatedDescription
        /\ Get(call.templateVariables, Details) = StatedDetails

Normalized == call.fn = "normalizePath"

\* C17 as stated: normalizing an already-normalized path against the same root
\* returns the same string.
C17_NormalizeIdempotent == Normalized => call.twice = call.once

\* C17: when the working directory is the source root and the path holds no
\* backslash, normalizing an already-normalized path against the same root
\* returns the same string (a relative path is resolved against the working
\* directory, and a backslash rewritten to "/" is a separator the second time).
C17_NormalizeIdempotentInRoot ==
    (Normalized /\ call.cwd = call.root /\ \A i \in 1..Len(call.path) : call.path[i] # "\\")
        => call.twice = call.once

\* a document two directories below the root, normalized in the root
C17_Witness ==
    /\ Normalized
    /\ call.cwd = call.root
    /\ call.path = <<"/", "d", "o", "c", "s", "/", "g", "u", "i", "d", "e", "/", "a", "d", "v", "a", "n", "c", "e", "d", "/", "a", ".", "m", "d">>
    /\ call.once = <<"g", "u", "i", "d", "e", "/", "a", "d", "v", "a", "n", "c", "e", "d", "/", "a", ".", "m", "d">>
    /\ call.twice = call.once

\* a document outside the root, normalized in the root
C17_WitnessOutside ==
    /\ Normalized
    /\ call.cwd = call.root
    /\ call.path = <<"/", "o", "t", "h", "e", "r", "/", "a", ".", "m", "d">>
    /\ call.once = <<".", ".", "/", "o", "t", "h", "e", "r", "/", "a", ".", "m", "d">>
    /\ call.twice = call.once

FullRendered == call.fn = "generateLLMsFullTxt"

\* the file lies under the directory, given relative to the source root
Under(file, directory) ==
    LET dirParts == DirParts(file)
        filterParts == Split(directory, "/")
    IN  Len(filterParts) <= Len(dirParts) /\ SubSeq(dirParts, 1, Len(filterParts)) = filterParts

\* C19 as stated: with directoryFilter set to a directory the result of
\* generateLLMsFullTxt has only the documents under that directory; with
\* directoryFilter "." or without directoryFilter it has every document.
C19_DirectoryFilter ==
    FullRendered =>
        \A i \in 1..Len(call.files) :
            Contains(call.result, UrlLine(call.files[i], call.options.domain))
                <=> \/ ~call.options.directoryFilter.defined
                    \/ call.options.directoryFilter.value = <<".">>
                    \/ Under(call.files[i], call.options.directoryFilter.value)

\* ---------------------------------------------------------------------------
\* Claims about the build
\* ---------------------------------------------------------------------------

\* a build has the given position
At(position) == \E build \in DOMAIN builds : builds[build].at = position

\* the chunks of the running or finished client build
BuildChunks ==
    IF (At("bundling") \/ At("done")) /\ Len(mdFiles) > 0 /\ settings.generateLLMsTxt
    THEN OrganizeFilesByDepth(PreparedFilesOf(mdFiles), OrNumber(settings.depth, 1),
                              OrNumber(settings.minFilesPerChunk, 2))
    ELSE <<>>

\* where the llms.txt of a directory is to be found
Destination(dirPath) ==
    IF dirPath = <<>> THEN outDir \o <<"/", "l", "l", "m", "s", ".", "t", "x", "t">>
    ELSE Resolve(Slash, outDir \o Slash \o dirPath \o <<"/", "l", "l", "m", "s", ".", "t", "x", "t">>)

Written(path) == \E file \in disk.files : file.path = path

ContentAt(path) == (CHOOSE file \in disk.files : file.path = path).content

\* the target of a navigation link to the llms.txt of a directory
LinkTo(dirPath) ==
    <<"]", "(">> \o settings.domain \o Slash
        \o (IF dirPath = <<>> THEN <<>> ELSE dirPath \o Slash) \o <<"l", "l", "m", "s", ".", "t", "x", "t", ")">>

\* C12 as stated: in a build with depth >= 2, includeNavigation = true and no
\* custom template, every directory llms.txt that generateBundle wrote has a
\* link to the llms.txt of its parent, of each sibling and of each direct
\* child. (Checked for the directories whose destination is not the root's.)
C12_WrittenDirectoryFilesLink ==
    (settings # <<>> /\ settings.depth >= 2 /\ settings.includeNavigation.defined
        /\ settings.includeNavigation.value
        /\ ~settings.customLLMsTxtTemplate.defined) =>
        \A i \in 1..Len(BuildChunks) :
            LET chunk == BuildChunks[i]
            IN  (Destination(chunk.dirPath) # Destination(<<>>) /\ Written(Destination(chunk.dirPath))) =>
                    /\ Contains(ContentAt(Destination(chunk.dirPath)), LinkTo(chunk.parentPath))
                    /\ \A j \in 1..Len(chunk.siblingPaths) :
                            Contains(ContentAt(Destination(chunk.dirPath)), LinkTo(chunk.siblingPaths[j]))
                    /\ \A j \in 1..Len(chunk.childPaths) :
                            Contains(ContentAt(Destination(chunk.dirPath)), LinkTo(chunk.childPaths[j]))

\* the units of work of the chunks that are still awaited
ChunkTasks == { task \in tasks : task.unit[1] = "chunk" }

\* C18 as stated: in one generateBundle pass the root chunk goes to
\* <outDir>/llms.txt and a chunk with dirPath d to <outDir>/d/llms.txt, no two
\* chunk tasks have the same destination, and so, whatever the order in which
\* the tasks finish, every chunk's destination holds that chunk's text.
C18_OwnDestinationPerChunk ==
    /\ \A first \in ChunkTasks, second \in ChunkTasks :
            first.unit # second.unit => first.path # second.path
    /\ At("done") =>
            \A i \in 1..Len(BuildChunks) :
                /\ Written(Destination(BuildChunks[i].dirPath))
                /\ ContentAt(Destination(BuildChunks[i].dirPath))
                        = GenerateDirectoryLLMsTxt(BuildChunks[i], ChunkOptions).result

\* C20: when the configuration resolved last is an SSR build, generateBundle
\* writes no file (no llms.txt, no llms-full.txt, no page), creates no
\* directory and starts no unit of work.
C20_SsrBuildWritesNothing ==
    [][\A build \in DOMAIN builds :
          (builds[build].at = "started" /\ builds'[build].at # "started" /\ isSsrBuild)
              => (disk' = disk /\ tasks' = {} /\ builds'[build].at = "skipped")]_vars

\* an SSR build over collected files has ended: no output directory, nothing
\* written
C20_Witness ==
    /\ At("skipped")
    /\ isSsrBuild
    /\ LogEntry("info", "initialized (SSR build)", <<>>) \in log
    /\ Len(mdFiles) = 2
    /\ LogEntry("info", "Skipping LLMs docs generation in SSR build", <<>>) \in log
    /\ disk.dirs = {} /\ disk.files = {}

----------------------------------------------------------------------------
(* C27: the dirPath of a chunk names the root or a real directory prefix *)

\* C27: every returned chunk has a dirPath that is "" or the first d-1
\* directory segments (1 < d <= depth) of the directory of some input
\* document; a document directly in the source root goes to the root chunk
\* only, so no chunk has the dirPath ".".
C27_DirPathIsRealPrefix ==
    Organized =>
        \A c \in Range(chunks) :
            \/ c.dirPath = <<>>
            \/ /\ c.dirPath # <<".">>
               /\ \E file \in Range(preparedFiles), d \in 2..depth :
                     /\ d - 1 <= Len(DirSegments(file))
                     /\ c.dirPath = Prefix(DirSegments(file), d - 1)

----------------------------------------------------------------------------
(* C28: the parent of every returned chunk is returned before it *)

\* C28: for every returned non-root chunk a chunk with its parentPath as
\* dirPath is returned too, earlier in the list, and holds every file of the
\* chunk; so the parent link of a navigation section points to a directory
\* that has a chunk.
C28_ParentClosure ==
    /\ Organized =>
          \A i \in 1..Len(chunks) :
              chunks[i].dirPath # <<>> =>
                  \E j \in 1..(i - 1) :
                      /\ chunks[j].dirPath = chunks[i].parentPath
                      /\ Range(chunks[i].files) \subseteq Range(chunks[j].files)
    /\ (pc = "navigated" /\ HasParentLink(navOptions)) =>
          navOptions.parentPath \in ChunkPaths

\* a chunk two levels down is returned, its parent holds more files than it
\* does, and the navigation of the chunk has been rendered
C28_Witness ==
    /\ pc = "navigated"
    /\ navOptions.currentDirPath = Prefix(<<Guide, Advanced>>, 2)
    /\ navOptions.parentPath = Guide
    /\ \E c \in Range(chunks), p \in Range(chunks) :
          /\ c.dirPath = navOptions.currentDirPath
          /\ p.dirPath = Guide
          /\ Len(p.files) > Len(c.files)

----------------------------------------------------------------------------
(* C29: rendering the root file leaves the caller's templateVariables alone *)

\* C29: after generateLLMsTxt has rendered the root file, the templateVariables
\* map the caller passed is what it was before the call, and a second render
\* with the same map and the same inputs returns the same text as the first.
C29_TemplateVariablesUntouched ==
    (RootRendered /\ ~call.threw /\ call.options.templateVariables.defined) =>
        /\ call.templateVariables = call.options.templateVariables.value
        /\ "again" \in DOMAIN call => call.again = call.result

\* ---------------------------------------------------------------------------
\* Claims about the builds of a site and about failures
\* ---------------------------------------------------------------------------

\* generateBundle of the build has returned or thrown
Finished(build) == builds[build].at \in {"skipped", "done", "rejected"}

\* generateBundle of the build went past the SSR check and generated
Generated(build) == builds[build].at \in {"bundling", "done", "rejected"}

\* C21 as stated: when the client build and the SSR build of one site share the
\* plugin, in any interleaving of their hooks the documentation is generated
\* by the client build's generateBundle, never by the SSR build's, and not
\* zero times.
C21_GeneratedOnceByClient ==
    /\ ~Generated("ssr")
    /\ Finished("client") => Generated("client")

\* C22 as stated: what generateBundle processes are the files collected since
\* the build started: every file it processes was collected by a transform of
\* the running builds, and every file the build's own transform collected
\* since its buildStart is processed.
C22_ProcessesWhatWasCollected ==
    \A build \in DOMAIN builds :
        Generated(build) =>
            /\ Range(builds[build].processed) \subseteq
                    UNION { builds[other].collected : other \in DOMAIN builds }
            /\ builds[build].collected \subseteq Range(builds[build].processed)

\* C23: when no markdown file has been collected, generateBundle of a client
\* build warns, writes no file, starts no unit of work and returns normally.
C23_NoFilesWarnsAndWritesNothing ==
    [][\A build \in DOMAIN builds :
          (builds[build].at = "started" /\ builds'[build].at # "started"
                /\ ~isSsrBuild /\ mdFiles = <<>>)
              => /\ LogEntry("warn", "No markdown files found to process.", <<>>) \in log'
                 /\ disk'.files = disk.files
                 /\ tasks' = tasks
                 /\ builds'[build].at = "done"]_vars

\* a client build in which transform collected nothing has ended with the
\* warning and an empty output directory
C23_Witness ==
    /\ "client" \in DOMAIN builds
    /\ builds["client"].at = "done"
    /\ ~isSsrBuild
    /\ mdFiles = <<>>
    /\ LogEntry("warn", "No markdown files found to process.", <<>>) \in log
    /\ disk.dirs = {outDir} /\ disk.files = {}
    /\ tasks = {}

\* the path that cannot be read or written belongs to one document: it is a
\* collected source file or the target of its page
DocumentFault ==
    /\ settings.generateLLMFriendlyDocsForEachPage
    /\ disk.denied # {}
    /\ \A path \in disk.denied :
          \E i \in 1..Len(mdFiles) :
              path \in {mdFiles[i], ResolveOut(<<Relative(srcDir, FilePath(mdFiles[i]))>>)}

\* C24 as stated: when processing one document fails, in its read step or in
\* its page render and write, generateBundle does not fail, the failure is in
\* the log, and the page of every other collected document is written.
C24_DocumentFailureIsolated ==
    \A build \in DOMAIN builds :
        (Finished(build) /\ Generated(build) /\ Pending(build) = {} /\ DocumentFault) =>
            /\ builds[build].at = "done"
            /\ \E entry \in log : entry.level = "error"
            /\ \A i \in 1..Len(mdFiles) :
                  ({mdFiles[i], ResolveOut(<<Relative(srcDir, FilePath(mdFiles[i]))>>)}
                        \cap disk.denied = {})
                      => Written(ResolveOut(<<Relative(srcDir, FilePath(mdFiles[i]))>>))

\* C25 as stated: generateBundle has neither returned nor thrown while a unit
\* of work it started (a chunk, llms-full.txt, a page) is unfinished.
C25_AwaitsEveryUnit ==
    \A build \in DOMAIN builds : Finished(build) => Pending(build) = {}

\* only the per-page files are generated
PagesOnly ==
    /\ settings # <<>>
    /\ ~settings.generateLLMsTxt /\ ~settings.generateLLMsFullTxt
    /\ settings.generateLLMFriendlyDocsForEachPage

\* the place stated for the page of a collected file: <outDir>/<path relative
\* to workDir>, <dir>/index.md below the root being written as <dir>.md
StatedTarget(id) ==
    LET relative == SubSeq(id, Len(srcDir) + 2, Len(id))
        parts == Split(relative, "/")
    IN  outDir \o Slash \o (IF Len(parts) > 1 /\ parts[Len(parts)] = <<"i", "n", "d", "e", "x", ".", "m", "d">>
                            THEN Join(SubSeq(parts, 1, Len(parts) - 1), Slash) \o <<".", "m", "d">>
                            ELSE relative)

\* the file name ends in .md, lies in workDir and matches no ignoreFiles
\* pattern of the build (index.md and about.md, with blog and team pages)
StatedCollectable(id) ==
    /\ Len(id) > 3 /\ SubSeq(id, Len(id) - 2, Len(id)) = <<".", "m", "d">>
    /\ SubSeq(id, 1, Len(srcDir) + 1) = srcDir \o Slash
    /\ SubSeq(id, Len(srcDir) + 2, Len(id)) \notin {<<"i", "n", "d", "e", "x", ".", "m", "d">>, <<"a", "b", "o", "u", "t", ".", "m", "d">>}

\* C26 as stated: with llms.txt and llms-full.txt disabled and the pages
\* enabled, a finished generateBundle has written one file per collected file
\* and nothing else, each at its stated place, and every collected file ends
\* in .md, lies in workDir and matches no ignoreFiles pattern.
C26_OneFilePerCollectedFile ==
    (PagesOnly /\ At("done")) =>
        /\ { file.path : file \in disk.files } = { StatedTarget(id) : id \in Range(mdFiles) }
        /\ Cardinality(disk.files) = Len(mdFiles)
        /\ \A id \in Range(mdFiles) : StatedCollectable(id)

\* the prepared file of a collected file
PreparedFileOf(id) == PreparedFilesOf(<<id>>)[1]

\* the page units of the builds that have not finished
PageTasks == { task \in tasks : task.unit[1] = "page" }

\* C30 as stated: in one generateBundle pass no two page units have the same
\* target path, and whatever the order in which they finish, the page of
\* every collected file holds that file's content.
C30_OwnTargetPerPage ==
    /\ \A first \in PageTasks, second \in PageTasks :
            first # second => first.path # second.path
    /\ (At("done") /\ settings.generateLLMFriendlyDocsForEachPage) =>
            \A id \in Range(mdFiles) :
                /\ Written(StatedTarget(id))
                /\ ContentAt(StatedTarget(id)) = FileBlock(PreparedFileOf(id), settings.domain)

====
